---------------------------- MODULE Spec2Model ----------------------------
(***************************************************************************)
(* Model of the key-enumeration / dispatch / durable-log pipeline of       *)
(* scrap-auth-unemi (src/assignment/manage-data.ts and the NDJSON version  *)
(* of src/assignment/index.ts).                                            *)
(*                                                                         *)
(* Seven specifications share the module:                                  *)
(*   SpecGen     the sequence generator (generateSequences) on its own;    *)
(*   SpecReq     one call chain of requestForKeyWithBackoff, wrapped as    *)
(*               the scheduler wraps it (FairReq: with its fairness);      *)
(*   SpecWriter  one RotatingNdjsonWriter on its directory, await by       *)
(*               await, with crashes and recoveries;                       *)
(*   SpecProgress  one progress.json, whatever it holds, and the calls of  *)
(*               ensureDataFiles, readProgressIndex, writeProgressIndex;   *)
(*   SpecToken   login-token.ts: login, then the refreshes of the timer;   *)
(*   Spec        getUsersAssignment: the batch scheduler, the two rotating *)
(*               NDJSON writers, the progress file, crashes and restarts;  *)
(*   SpecWindow  one window of getUsersAssignment with the order in which  *)
(*               its tasks settle.                                         *)
(* Keys are strings built with \o; messages are tuples of characters so    *)
(* that lower-casing and substring search are computed, not assumed.      *)
(***************************************************************************)
EXTENDS Integers, Sequences, FiniteSets, TLC

VARIABLES
    en,            \* SpecGen: one generator being iterated
    rq,            \* SpecReq: one call chain of requestForKeyWithBackoff
    wr,            \* SpecWriter: one RotatingNdjsonWriter and its directory
    pf,            \* SpecProgress: a progress.json and the calls made on it
    tk,            \* SpecToken: token, refreshTokenValue and the refresh timer
    win,           \* SpecWindow: one window of tasks and the order they settle in
    pc,            \* Spec: where getUsersAssignment stands
    progressFile,  \* disk: content of progress.json
    allIds,        \* disk: the allIDs directory (part files, meta.json)
    success,       \* disk: the dataResults directory
    allIdsState,   \* memory: allIdsWriter.state
    successState,  \* memory: successWriter.state
    startIndex,    \* memory: const startIndex
    gen,           \* memory: the generator object gen
    index,         \* memory: let index
    scheduled,     \* memory: let scheduled
    pending,       \* memory: let pending (the tasks of the window)
    allIdsBatch,   \* memory: const allIdsBatch
    successBatch,  \* memory: const successBatch
    final,         \* memory: TRUE in the flush after the for loop
    submitted,     \* history: the dispatches of this run, in submission order
    lostWindow,    \* history: the indices pending when the last run stopped
    restarts,      \* environment: runs started after the first one
    successLeft    \* environment: success responses the service still gives

genVars   == <<en>>
reqVars   == <<rq>>
wrVars    == <<wr>>
pfVars    == <<pf>>
tkVars    == <<tk>>
winVars   == <<win>>
\* What the scheduler leaves alone: the variables of the other specifications.
otherVars == <<genVars, reqVars, wrVars, pfVars, tkVars, winVars>>
diskVars  == <<progressFile, allIds, success>>
memVars   == <<pc, allIdsState, successState, startIndex, gen, index, scheduled,
               pending, allIdsBatch, successBatch, final>>
envVars   == <<submitted, lostWindow, restarts, successLeft>>
schedVars == <<diskVars, memVars, envVars>>
vars      == <<genVars, reqVars, wrVars, pfVars, tkVars, winVars, schedVars>>

---------------------------------------------------------------------------
(* Bounds of the model.                                                    *)

\* SpecGen draws alphabets of 1..MaxAlphabet distinct letters, depths 1..MaxDepth.
MaxAlphabet == 3
MaxDepth == 3
\* Spec: the window size (assignment.maxRequest of the settings, 1000 by default).
BATCH_SIZE == 2
\* Spec: the rotation caps the writers are given (250 MB and 500,000 lines in
\* the source), in the model's units.
MaxBytesPerPart == 8
MaxLinesPerPart == 3
\* Spec: restarts after the first run (crashes, aborted runs, reruns).
MaxRestarts == 1
\* Spec: success responses the remote service gives over all runs.
MaxSuccess == 1
\* SpecWriter: the records of one batch, and the appendBatch calls made on a
\* directory over all the lives of its writer.
MaxBatch == 4
MaxAppends == 2
\* Largest lastIndex written to a progress.json on its own.
MaxStored == 3
\* Times the refresh timer fires in a run.
MaxTicks == 3

---------------------------------------------------------------------------
(* Generic helpers.                                                        *)

Range(s) == {s[k] : k \in 1..Len(s)}

RECURSIVE Pow(_, _)
Pow(b, e) == IF e = 0 THEN 1 ELSE b * Pow(b, e - 1)

RECURSIVE SeqsNoDup(_, _)
\* The sequences of exactly n distinct elements of S.
SeqsNoDup(S, n) ==
    IF n = 0 THEN {<<>>}
    ELSE UNION {{Append(s, x) : x \in S \ Range(s)} : s \in SeqsNoDup(S, n - 1)}

---------------------------------------------------------------------------
(* Key generation: manage-data.ts.                                         *)

fixedPrefix == "OPPQQRRSSTTUUU"

\* The 13 letters of the source, in their order.
AllLetters == <<"M", "N", "O", "P", "Q", "R", "S", "T", "U", "V", "W", "X", "Y">>

\* The alphabet the scheduler runs with: the first three letters of the source's
\* thirteen (the model scales the keyspace down).
allowedLetters == <<"M", "N", "O">>

\* The nesting depth of generateSequences in the scheduler's runs (six in the
\* source, scaled down; every raise multiplies the keyspace by three).
sequenceLength == 1

\* The generator just created: every loop counter at 0. With an empty alphabet
\* the outermost loop never runs.
GenStart(alphabet, depth) ==
    [digits |-> [k \in 1..depth |-> 0], done |-> (Len(alphabet) = 0)]

RECURSIVE GenConcat(_, _, _)
\* allowedLetters[i0] + allowedLetters[i1] + ... : the yield expression.
GenConcat(alphabet, digits, k) ==
    IF k > Len(digits) THEN ""
    ELSE alphabet[digits[k] + 1] \o GenConcat(alphabet, digits, k + 1)

GenValue(alphabet, g) == GenConcat(alphabet, g.digits, 1)

RECURSIVE GenCarryNoReset(_, _, _)
\* Faulty variant, for the mutation analysis of the properties: an inner loop that is not restarted at 0 when the outer one advances.
GenCarryNoReset(len, digits, k) ==
    IF k = 0 THEN [digits |-> digits, done |-> TRUE]
    ELSE IF digits[k] + 1 < len
         THEN [digits |-> [digits EXCEPT ![k] = @ + 1], done |-> FALSE]
         ELSE GenCarryNoReset(len, digits, k - 1)

RECURSIVE GenCarry(_, _, _)
\* Resuming after a yield: the innermost counter is incremented; a loop whose
\* counter reaches len ends, its counter restarts at 0 the next time the
\* enclosing loop, itself incremented, enters it. When the outermost loop ends
\* the generator is done.
GenCarry(len, digits, k) ==
    IF k = 0 THEN [digits |-> digits, done |-> TRUE]
    ELSE IF digits[k] + 1 < len
         THEN [digits |-> [digits EXCEPT ![k] = @ + 1], done |-> FALSE]
         ELSE GenCarry(len, [digits EXCEPT ![k] = 0], k - 1)

GenAdvance(alphabet, g) == GenCarry(Len(alphabet), g.digits, Len(g.digits))

---------------------------------------------------------------------------
(* SpecGen: a generator iterated to exhaustion, for every alphabet and     *)
(* depth within the bounds.                                                *)

Alphabets ==
    UNION {SeqsNoDup({AllLetters[k] : k \in 1..MaxAlphabet}, n) : n \in 1..MaxAlphabet}

EnIdle == [alphabet |-> <<>>, depth |-> 0, gen |-> GenStart(<<>>, 0),
           index |-> 0, seq |-> "", keys |-> {}]
RqIdle == [st |-> "idle"]
WrIdle == [pc |-> "off"]
PfIdle == [pc |-> "off"]
TkIdle == [pc |-> "off"]
WinIdle == [pc |-> "off"]

\* Nothing on disk, getUsersAssignment not called yet.
\* A file is [kind, type, lastIndex, text]: kind tells whether it exists and
\* parses; type is the JSON type of its lastIndex member; lastIndex holds a
\* number or boolean member, text holds the characters of a string member.
NoFile == [kind |-> "missing", type |-> "absent", lastIndex |-> 0, text |-> <<>>]
NoMeta == [exists |-> FALSE, part |-> 0, lines |-> 0, bytes |-> 0]
EmptyDir == [files |-> <<>>, meta |-> NoMeta]
\* this.state = { part: 1, lines: 0, bytes: 0 } of the constructor.
NewState == [part |-> 1, lines |-> 0, bytes |-> 0]

SchedIdle ==
    /\ pc = "off"
    /\ progressFile = NoFile
    /\ allIds = EmptyDir
    /\ success = EmptyDir
    /\ allIdsState = NewState
    /\ successState = NewState
    /\ startIndex = 0
    /\ gen = GenStart(allowedLetters, sequenceLength)
    /\ index = 0
    /\ scheduled = 0
    /\ pending = <<>>
    /\ allIdsBatch = <<>>
    /\ successBatch = <<>>
    /\ final = FALSE
    /\ submitted = <<>>
    /\ lostWindow = {}
    /\ restarts = 0
    /\ successLeft = MaxSuccess

InitGen ==
    /\ en \in {[alphabet |-> a, depth |-> d, gen |-> GenStart(a, d),
                index |-> 0, seq |-> "", keys |-> {}] :
               a \in Alphabets, d \in 1..MaxDepth}
    /\ rq = RqIdle
    /\ wr = WrIdle
    /\ pf = PfIdle
    /\ tk = TkIdle
    /\ win = WinIdle
    /\ SchedIdle

\* One iteration of `for (const seq of gen)`: the generator yields the key of
\* its counters and, resumed, advances them.
EnumNext ==
    /\ ~en.gen.done
    /\ LET seq == GenValue(en.alphabet, en.gen)
       IN en' = [en EXCEPT !.gen = GenAdvance(en.alphabet, en.gen),
                           !.index = @ + 1,
                           !.seq = seq,
                           !.keys = @ \cup {seq}]
    /\ UNCHANGED <<reqVars, wrVars, pfVars, tkVars, winVars, schedVars>>

NextGen == EnumNext

SpecGen == InitGen /\ [][NextGen]_vars

---------------------------------------------------------------------------
(* The request and its classification: requestForKeyWithBackoff.           *)

maxAttempts == 5

\* The terminal message of the source, 'invalid literal for int() with base
\* 10', scaled to three characters.
Sentinel == <<"i", "n", "t">>

\* Sample message texts: empty, the sentinel, the sentinel in upper case, the
\* sentinel in mixed case inside a longer text, a near miss, another text.
MessageTexts ==
    { <<>>,
      <<"i", "n", "t">>,
      <<"I", "N", "T">>,
      <<"x", "I", "n", "T", "y">>,
      <<"i", "n", "x", "t">>,
      <<"n", "o">> }

\* json.message: absent, present and not a string, or a string.
MessageFields ==
    {[type |-> "absent", text |-> <<>>], [type |-> "number", text |-> <<>>]}
        \cup {[type |-> "string", text |-> t] : t \in MessageTexts}

\* json.data: absent, an object without an array list_standby, or an object
\* whose list_standby is an array.
DataFields == {"absent", "object", "list"}

\* What response.json() resolves to: null, or an object with these two fields.
JsonNull == [isNull |-> TRUE, data |-> "absent", message |-> [type |-> "absent", text |-> <<>>]]
Payloads ==
    {JsonNull} \cup {[isNull |-> FALSE, data |-> d, message |-> m] :
                     d \in DataFields, m \in MessageFields}

\* What requestForKey does: it throws (fetch rejects, or the body is no JSON),
\* or it returns the parsed payload.
Responses ==
    {[ok |-> FALSE, json |-> JsonNull]} \cup {[ok |-> TRUE, json |-> p] : p \in Payloads}

LowerChar(c) ==
    CASE c = "I" -> "i"
      [] c = "N" -> "n"
      [] c = "T" -> "t"
      [] OTHER -> c

ToLowerCase(s) == [k \in 1..Len(s) |-> LowerChar(s[k])]

Includes(s, sub) ==
    \E k \in 0..(Len(s) - Len(sub)) : SubSeq(s, k + 1, k + Len(sub)) = sub

Undefined == [undefined |-> TRUE]

\* const msg = typeof json?.message === 'string' ? json.message : undefined
MsgOf(json) ==
    IF ~json.isNull /\ json.message.type = "string"
    THEN [undefined |-> FALSE, text |-> json.message.text]
    ELSE [undefined |-> TRUE, text |-> <<>>]

\* A string is truthy when it is not empty; undefined is falsy.
Truthy(msg) == ~msg.undefined /\ Len(msg.text) > 0

HasInvalidLiteral(msg) == Truthy(msg) /\ Includes(ToLowerCase(msg.text), Sentinel)

\* json?.data && Array.isArray(json.data.list_standby)
IsSuccessShape(json) == ~json.isNull /\ json.data = "list"

\* Faulty variant, for the mutation analysis of the properties: a linear delay, 2 * attempt seconds.
BackoffTimeLinear(attempt) == 2 * attempt * 1000

\* Math.pow(2, attempt) * 1000, in milliseconds.
BackoffTime(attempt) == Pow(2, attempt) * 1000

\* response: { error: `Fallo tras ${maxAttempts} intentos: ...` }
ErrorResponse == [error |-> "Fallo tras intentos", attempts |-> maxAttempts]

Return(entry, successEntry) ==
    [kind |-> "return", allIdsEntry |-> entry, successEntry |-> successEntry, backoffTime |-> 0]
Retry(attempt) ==
    [kind |-> "retry", allIdsEntry |-> Undefined, successEntry |-> Undefined,
     backoffTime |-> BackoffTime(attempt)]
Throw ==
    [kind |-> "throw", allIdsEntry |-> Undefined, successEntry |-> Undefined, backoffTime |-> 0]

\* Faulty variant, for the mutation analysis of the properties: the terminal message is tested before the success shape.
OnJsonSentinelFirst(seq, idx, attempt, json) ==
    LET fullID == fixedPrefix \o seq
        allIdsEntry == [fullID |-> fullID, index |-> idx, response |-> json]
        msg == MsgOf(json)
    IN IF HasInvalidLiteral(msg) THEN Return(allIdsEntry, Undefined)
       ELSE IF IsSuccessShape(json)
       THEN Return(allIdsEntry, [index |-> idx, fullID |-> fullID, data |-> "list_standby"])
       ELSE IF Truthy(msg) THEN Return(allIdsEntry, Undefined)
       ELSE IF attempt < maxAttempts THEN Retry(attempt)
       ELSE Return(allIdsEntry, Undefined)

\* Faulty variant, for the mutation analysis of the properties: only the terminal message is final; any other message is retried.
OnJsonRetryOther(seq, idx, attempt, json) ==
    LET fullID == fixedPrefix \o seq
        allIdsEntry == [fullID |-> fullID, index |-> idx, response |-> json]
        msg == MsgOf(json)
    IN IF IsSuccessShape(json)
       THEN Return(allIdsEntry, [index |-> idx, fullID |-> fullID, data |-> "list_standby"])
       ELSE IF HasInvalidLiteral(msg) THEN Return(allIdsEntry, Undefined)
       ELSE IF attempt < maxAttempts THEN Retry(attempt)
       ELSE Return(allIdsEntry, Undefined)

\* The try block, once requestForKey has returned json.
OnJson(seq, idx, attempt, json) ==
    LET fullID == fixedPrefix \o seq
        allIdsEntry == [fullID |-> fullID, index |-> idx, response |-> json]
        msg == MsgOf(json)
    IN IF IsSuccessShape(json)
       THEN Return(allIdsEntry, [index |-> idx, fullID |-> fullID, data |-> "list_standby"])
       ELSE IF HasInvalidLiteral(msg) THEN Return(allIdsEntry, Undefined)
       ELSE IF Truthy(msg) THEN Return(allIdsEntry, Undefined)
       ELSE IF attempt < maxAttempts THEN Retry(attempt)
       ELSE Return(allIdsEntry, Undefined)

\* Faulty variant, for the mutation analysis of the properties: the last failure is recorded without the error description.
OnErrorNoDescription(seq, idx, attempt) ==
    IF attempt < maxAttempts THEN Retry(attempt)
    ELSE Return([fullID |-> fixedPrefix \o seq, index |-> idx, response |-> JsonNull],
                Undefined)

\* Faulty variant, for the mutation analysis of the properties: the last failure is thrown again instead of being recorded.
OnErrorThrows(seq, idx, attempt) ==
    IF attempt < maxAttempts THEN Retry(attempt) ELSE Throw

\* The catch block, when requestForKey has thrown.
OnError(seq, idx, attempt) ==
    IF attempt < maxAttempts THEN Retry(attempt)
    ELSE Return([fullID |-> fixedPrefix \o seq, index |-> idx, response |-> ErrorResponse],
                Undefined)

\* One invocation of requestForKeyWithBackoff(seq, index, attempt) up to its
\* return or its recursive call, given what requestForKey did.
RequestForKeyWithBackoff(seq, idx, attempt, resp) ==
    IF resp.ok THEN OnJson(seq, idx, attempt, resp.json)
    ELSE OnError(seq, idx, attempt)

Null == [isNullValue |-> TRUE]

\* The async wrapper of getUsersAssignment around the call: the value of the
\* call, or null when the call throws.
TaskValue(out) ==
    IF out.kind = "throw" THEN Null
    ELSE [isNullValue |-> FALSE, allIdsEntry |-> out.allIdsEntry,
          successEntry |-> out.successEntry]

---------------------------------------------------------------------------
(* SpecReq: one task, from its submission to its settling.                 *)

\* The keys of the scheduler's keyspace, by index.
RECURSIVE KeysFrom(_)
KeysFrom(g) ==
    IF g.done THEN <<>>
    ELSE <<GenValue(allowedLetters, g)>> \o KeysFrom(GenAdvance(allowedLetters, g))
AllKeys == KeysFrom(GenStart(allowedLetters, sequenceLength))

InitReq ==
    /\ rq \in {[st |-> "calling", seq |-> AllKeys[i + 1], index |-> i, attempt |-> 1,
                calls |-> 0, delays |-> <<>>, last |-> [ok |-> TRUE, json |-> JsonNull],
                value |-> Null] : i \in 0..(Len(AllKeys) - 1)}
    /\ en = EnIdle
    /\ wr = WrIdle
    /\ pf = PfIdle
    /\ tk = TkIdle
    /\ win = WinIdle
    /\ SchedIdle

\* requestForKey answers the call of the current attempt.
ReqAttempt(resp) ==
    /\ rq.st = "calling"
    /\ LET out == RequestForKeyWithBackoff(rq.seq, rq.index, rq.attempt, resp)
       IN rq' = IF out.kind = "retry"
                THEN [rq EXCEPT !.st = "sleeping", !.calls = @ + 1, !.last = resp,
                                !.delays = Append(@, out.backoffTime)]
                ELSE [rq EXCEPT !.st = "settled", !.calls = @ + 1, !.last = resp,
                                !.value = TaskValue(out)]
    /\ UNCHANGED <<genVars, wrVars, pfVars, tkVars, winVars, schedVars>>

\* The delay is over: the recursive call with attempt + 1.
ReqWake ==
    /\ rq.st = "sleeping"
    /\ rq' = [rq EXCEPT !.st = "calling", !.attempt = @ + 1]
    /\ UNCHANGED <<genVars, wrVars, pfVars, tkVars, winVars, schedVars>>

NextReq ==
    \/ \E resp \in Responses : ReqAttempt(resp)
    \/ ReqWake

SpecReq == InitReq /\ [][NextReq]_vars

\* The service answers every call and every timer fires.
FairReq == SpecReq /\ WF_vars(NextReq)

---------------------------------------------------------------------------
(* The rotating NDJSON writer: RotatingNdjsonWriter. A directory is the    *)
(* part files it holds (part number -> what was written to it, in order)   *)
(* and meta.json; a writer is a directory with the in-memory state and the *)
(* options of the object. What a file holds is a sequence of records, each *)
(* one line with its newline, and possibly fragments: the first bytes of a *)
(* line, without newline, which a write cut short has left.                *)

Max(S) == CHOOSE x \in S : \A y \in S : y <= x

\* Buffer.byteLength of one serialized record and its newline, in the model's
\* units: a success record carries the payload and is the longer one; a
\* fragment is shorter than any line.
LineBytes(o) ==
    CASE o.type = "success" -> 3
      [] o.type = "fragment" -> 1
      [] OTHER -> 2

RECURSIVE SumBytes(_)
SumBytes(lines) == IF lines = <<>> THEN 0 ELSE LineBytes(Head(lines)) + SumBytes(Tail(lines))

\* fs.statSync(p).size
FileSize(lines) == SumBytes(lines)

\* Faulty variant, for the mutation analysis of the properties: the lines counted as the pieces between newlines, one more than the newlines.
CountFileLinesSplit(lines) == Cardinality({k \in 1..Len(lines) : lines[k].type # "fragment"}) + 1

\* countFileLines: the 0x0a bytes of the file, one per line written whole.
CountFileLines(lines) == Cardinality({k \in 1..Len(lines) : lines[k].type # "fragment"})

\* Faulty variant, for the mutation analysis of the properties: the first part number found, not the highest.
FindFirstPartNumber(dir) == IF DOMAIN dir.files = {} THEN 0 ELSE 1

\* findLatestPartNumber: the highest part number present, 0 when there is none.
FindLatestPartNumber(dir) == IF DOMAIN dir.files = {} THEN 0 ELSE Max(DOMAIN dir.files)

\* fs.writeFileSync(path, ''): the file is created empty, or emptied.
WriteEmpty(files, part) ==
    [q \in (DOMAIN files) \cup {part} |-> IF q = part THEN <<>> ELSE files[q]]

\* The options getUsersAssignment gives both writers.
WriterOpts == [maxBytesPerPart |-> MaxBytesPerPart, maxLinesPerPart |-> MaxLinesPerPart]

\* new RotatingNdjsonWriter(targetDir, opts)
NewWriter(dir, opts) == [dir |-> dir, state |-> NewState, opts |-> opts]

\* flushMeta: meta.json takes the in-memory state.
FlushMeta(w) ==
    [w EXCEPT !.dir.meta = [exists |-> TRUE, part |-> w.state.part,
                            lines |-> w.state.lines, bytes |-> w.state.bytes]]

\* Faulty variant, for the mutation analysis of the properties: recovery that takes meta.json at its word when the file is there.
RecoverTrustsMeta(w) ==
    LET latest == FindLatestPartNumber(w.dir)
    IN IF latest = 0
       THEN [w EXCEPT !.dir.files = WriteEmpty(@, 1),
                      !.state = [part |-> 1, lines |-> 0, bytes |-> 0]]
       ELSE IF w.dir.meta.exists
       THEN [w EXCEPT !.state = [part |-> latest, lines |-> w.dir.meta.lines,
                                 bytes |-> w.dir.meta.bytes]]
       ELSE [w EXCEPT !.state = [part |-> latest,
                                 lines |-> CountFileLines(w.dir.files[latest]),
                                 bytes |-> FileSize(w.dir.files[latest])]]

\* Faulty variant, for the mutation analysis of the properties: recovery that never goes on in a part it finds, and opens the next one.
RecoverOpensNextPart(w) ==
    LET latest == FindLatestPartNumber(w.dir)
    IN [w EXCEPT !.dir.files = WriteEmpty(@, latest + 1),
                 !.state = [part |-> latest + 1, lines |-> 0, bytes |-> 0]]

\* recoverStateFromDisk up to its await this.flushMeta().
RecoverFromFiles(w) ==
    LET latest == FindLatestPartNumber(w.dir)
    IN IF latest = 0
       THEN [w EXCEPT !.dir.files = WriteEmpty(@, 1),
                      !.state = [part |-> 1, lines |-> 0, bytes |-> 0]]
       ELSE [w EXCEPT !.state = [part |-> latest,
                                 lines |-> CountFileLines(w.dir.files[latest]),
                                 bytes |-> FileSize(w.dir.files[latest])]]

\* Faulty variant, for the mutation analysis of the properties: recovery that always starts over at an emptied part 1.
RecoverStartsOver(w) ==
    FlushMeta([w EXCEPT !.dir.files = WriteEmpty(@, 1),
                        !.state = [part |-> 1, lines |-> 0, bytes |-> 0]])

\* recoverStateFromDisk
RecoverStateFromDisk(w) == FlushMeta(RecoverFromFiles(w))

\* rotate up to its await this.flushMeta().
RotateFiles(w) ==
    LET next == w.state.part + 1
    IN [w EXCEPT !.dir.files = IF next \in DOMAIN @ THEN @ ELSE WriteEmpty(@, next),
                 !.state = [part |-> next, lines |-> 0, bytes |-> 0]]

\* rotate
Rotate(w) == FlushMeta(RotateFiles(w))

\* Faulty variant, for the mutation analysis of the properties: the part is left only once it is over a cap, whatever comes in.
NeedsRotateCurrentOnly(w, incomingBytes, incomingLines) ==
    \/ w.state.bytes > w.opts.maxBytesPerPart
    \/ w.state.lines > w.opts.maxLinesPerPart

\* Faulty variant, for the mutation analysis of the properties: the byte cap is not looked at.
NeedsRotateLinesOnly(w, incomingBytes, incomingLines) ==
    w.state.lines + incomingLines > w.opts.maxLinesPerPart

\* needsRotate
NeedsRotate(w, incomingBytes, incomingLines) ==
    \/ w.state.bytes + incomingBytes > w.opts.maxBytesPerPart
    \/ w.state.lines + incomingLines > w.opts.maxLinesPerPart

\* Faulty variant, for the mutation analysis of the properties: the batch is counted as one line.
AppendFileOneLine(w, objs) ==
    [w EXCEPT !.dir.files[w.state.part] = @ \o objs,
              !.state.bytes = @ + SumBytes(objs),
              !.state.lines = @ + 1]

\* Faulty variant, for the mutation analysis of the properties: the batch is written at the start of the file.
AppendFilePrepends(w, objs) ==
    [w EXCEPT !.dir.files[w.state.part] = objs \o @,
              !.state.bytes = @ + SumBytes(objs),
              !.state.lines = @ + Len(objs)]

\* appendBatch from its appendFile to the update of the state: the lines of
\* the batch go to the end of the current part.
AppendFile(w, objs) ==
    [w EXCEPT !.dir.files[w.state.part] = @ \o objs,
              !.state.bytes = @ + SumBytes(objs),
              !.state.lines = @ + Len(objs)]

\* appendBatch
AppendBatch(w, objs) ==
    IF Len(objs) = 0 THEN w
    ELSE LET incomingBytes == SumBytes(objs)
             incomingLines == Len(objs)
             r == IF NeedsRotate(w, incomingBytes, incomingLines) THEN Rotate(w) ELSE w
         IN FlushMeta(AppendFile(r, objs))

---------------------------------------------------------------------------
(* SpecWriter: one log directory and the writer on it, used as             *)
(* getUsersAssignment uses a writer: constructed, recovered from the disk, *)
(* then given batches by appendBatch calls awaited one after the other.    *)
(* Every await of the writer is a step, and the process can be killed in   *)
(* or between the steps and start again on what the disk holds.            *)

\* The defaults of the constructor (250 MB, 500,000 lines), in units in which
\* no directory of the model comes near them.
DefaultOpts == [maxBytesPerPart |-> 250, maxLinesPerPart |-> 500]

\* meta.json cut short by a crash in the middle of its overwrite.
TornMeta == [exists |-> TRUE, part |-> 0, lines |-> 0, bytes |-> 0]

\* The batch of the n-th appendBatch call: len records of one type.
BatchOf(type, len, n) ==
    [k \in 1..len |-> [type |-> type, fullID |-> "", index |-> k, at |-> n]]

Batches(n) ==
    {<<>>} \cup {BatchOf(t, len, n) : t \in {"allIds", "success"}, len \in 1..MaxBatch}

\* The first bytes of a line, as a write cut short leaves them.
Fragment(o) == [o EXCEPT !.type = "fragment"]

\* The writer object of wr.
WriterOf(r) == [dir |-> r.dir, state |-> r.state, opts |-> r.opts]
WithWriter(r, w, pc2) == [r EXCEPT !.dir = w.dir, !.state = w.state, !.pc = pc2]

InitWriter ==
    /\ wr \in {[pc |-> "closed", dir |-> EmptyDir, state |-> NewState, opts |-> o,
                batch |-> <<>>, from |-> NewState, before |-> <<>>,
                appends |-> 0, crashes |-> 0, written |-> 0] :
               o \in {WriterOpts, DefaultOpts}}
    /\ en = EnIdle
    /\ rq = RqIdle
    /\ pf = PfIdle
    /\ tk = TkIdle
    /\ win = WinIdle
    /\ SchedIdle

\* new RotatingNdjsonWriter(dir, opts) and recoverStateFromDisk up to its
\* flushMeta.
WrRecover ==
    /\ wr.pc = "closed"
    /\ wr' = WithWriter(wr, RecoverFromFiles(NewWriter(wr.dir, wr.opts)), "recoverFlush")
    /\ UNCHANGED <<genVars, reqVars, pfVars, tkVars, winVars, schedVars>>

\* await this.flushMeta(), the last step of recoverStateFromDisk, of rotate
\* and of appendBatch.
WrFlushMeta ==
    /\ wr.pc \in {"recoverFlush", "rotateFlush", "appendFlush"}
    /\ LET next == CASE wr.pc = "recoverFlush" -> "ready"
                     [] wr.pc = "rotateFlush" -> "append"
                     [] wr.pc = "appendFlush" -> "ready"
           done == IF wr.pc = "appendFlush" THEN Len(wr.batch) ELSE 0
       IN wr' = [WithWriter(wr, FlushMeta(WriterOf(wr)), next) EXCEPT !.written = @ + done]
    /\ UNCHANGED <<genVars, reqVars, pfVars, tkVars, winVars, schedVars>>

\* appendBatch(objs) is called: nothing to do for an empty batch; otherwise
\* the part is left for the next one when needsRotate says so, and the
\* append is begun.
WrAppendBatch(objs) ==
    /\ wr.pc = "ready"
    /\ wr.appends < MaxAppends
    /\ LET called == [wr EXCEPT !.appends = @ + 1, !.batch = objs, !.from = wr.state,
                                !.before = wr.dir.files]
           w == WriterOf(wr)
       IN wr' = IF Len(objs) = 0 THEN called
                ELSE IF NeedsRotate(w, SumBytes(objs), Len(objs))
                THEN WithWriter(called, RotateFiles(w), "rotateFlush")
                ELSE [called EXCEPT !.pc = "append"]
    /\ UNCHANGED <<genVars, reqVars, pfVars, tkVars, winVars, schedVars>>

\* await fs.promises.appendFile(filePath, linesStr) and the update of the
\* state.
WrAppendFile ==
    /\ wr.pc = "append"
    /\ wr' = WithWriter(wr, AppendFile(WriterOf(wr), wr.batch), "appendFlush")
    /\ UNCHANGED <<genVars, reqVars, pfVars, tkVars, winVars, schedVars>>

\* What a killed process leaves of the writer: the directory.
WrForget(r) ==
    [r EXCEPT !.pc = "closed", !.state = NewState, !.batch = <<>>, !.from = NewState,
              !.before = <<>>, !.crashes = @ + 1]

\* The process is killed between two steps.
WrCrash ==
    /\ wr.pc \notin {"off", "closed"}
    /\ wr.crashes < MaxRestarts
    /\ wr' = WrForget(wr)
    /\ UNCHANGED <<genVars, reqVars, pfVars, tkVars, winVars, schedVars>>

\* The process is killed in the appendFile: the file has taken the first
\* lines of the batch, and possibly the first bytes of the line after them.
WrCrashInAppend(whole, cut) ==
    /\ wr.pc = "append"
    /\ wr.crashes < MaxRestarts
    /\ whole < Len(wr.batch)
    /\ LET taken == SubSeq(wr.batch, 1, whole)
                      \o (IF cut THEN <<Fragment(wr.batch[whole + 1])>> ELSE <<>>)
       IN wr' = WrForget([wr EXCEPT !.dir.files[wr.state.part] = @ \o taken])
    /\ UNCHANGED <<genVars, reqVars, pfVars, tkVars, winVars, schedVars>>

\* The process is killed in the writeFile of flushMeta.
WrCrashInFlush ==
    /\ wr.pc \in {"recoverFlush", "rotateFlush", "appendFlush"}
    /\ wr.crashes < MaxRestarts
    /\ wr' = WrForget([wr EXCEPT !.dir.meta = TornMeta])
    /\ UNCHANGED <<genVars, reqVars, pfVars, tkVars, winVars, schedVars>>

NextWriter ==
    \/ WrRecover
    \/ WrFlushMeta
    \/ \E objs \in Batches(wr.appends + 1) : WrAppendBatch(objs)
    \/ WrAppendFile
    \/ WrCrash
    \/ \E whole \in 0..MaxBatch, cut \in BOOLEAN : WrCrashInAppend(whole, cut)
    \/ WrCrashInFlush

SpecWriter == InitWriter /\ [][NextWriter]_vars

---------------------------------------------------------------------------
(* The progress file: ensureDataFiles, readProgressIndex,                  *)
(* writeProgressIndex.                                                     *)

\* Faulty variant, for the mutation analysis of the properties: the progress written is one ahead of the index.
ProgressJsonAhead(i) ==
    [kind |-> "json", type |-> "number", lastIndex |-> i + 1, text |-> <<>>]

\* JSON.stringify({ lastIndex: index })
ProgressJson(i) ==
    [kind |-> "json", type |-> "number", lastIndex |-> i, text |-> <<>>]

\* A file cut short by a crash in the middle of its overwrite: no JSON.
TornFile == [kind |-> "garbage", type |-> "absent", lastIndex |-> 0, text |-> <<>>]

\* JSON that parses but is not what the program writes: a lastIndex member of
\* another type, or none (type "absent": also a JSON null, number, string or
\* array at top level, whose .lastIndex is undefined).
JsonOf(type, n, text) ==
    [kind |-> "json", type |-> type, lastIndex |-> n, text |-> text]

EnsureDataFiles(file) == IF file.kind = "missing" THEN ProgressJson(0) ELSE file

Digits == <<"0", "1", "2", "3", "4", "5", "6", "7", "8", "9">>
IsDigit(c) == \E d \in 1..Len(Digits) : Digits[d] = c
DigitOf(c) == (CHOOSE d \in 1..Len(Digits) : Digits[d] = c) - 1
RECURSIVE DecimalOf(_)
DecimalOf(t) ==
    IF t = <<>> THEN 0
    ELSE 10 * DecimalOf(SubSeq(t, 1, Len(t) - 1)) + DigitOf(t[Len(t)])
IsDecimal(t) == t # <<>> /\ \A i \in 1..Len(t) : IsDigit(t[i])

NaN == [finite |-> FALSE, n |-> 0]
Finite(n) == [finite |-> TRUE, n |-> n]

\* Number(text) of a string: the empty string is 0, a decimal literal with
\* an optional sign is its value, anything else is NaN.
StringToNumber(t) ==
    IF t = <<>> THEN Finite(0)
    ELSE IF IsDecimal(t) THEN Finite(DecimalOf(t))
    ELSE IF t[1] = "-" /\ IsDecimal(Tail(t)) THEN Finite(0 - DecimalOf(Tail(t)))
    ELSE IF t[1] = "+" /\ IsDecimal(Tail(t)) THEN Finite(DecimalOf(Tail(t)))
    ELSE NaN

\* Number(parsed?.lastIndex ?? 0): ?? replaces undefined and null by 0, and
\* Number() converts what is left. A literal beyond the range of a double
\* (type "overflow": 1e999) has parsed to an Infinity.
ToNumber(file) ==
    CASE file.type \in {"absent", "null"} -> Finite(0)
      [] file.type = "number"   -> Finite(file.lastIndex)
      [] file.type = "boolean"  -> Finite(file.lastIndex)
      [] file.type = "string"   -> StringToNumber(file.text)
      [] file.type = "overflow" -> NaN
      [] file.type = "object"   -> NaN

ReadThrows == [kind |-> "throw"]
ReadReturns(v) == [kind |-> "return", value |-> v]

\* Faulty variant, for the mutation analysis of the properties: negative values are returned as they are.
ReadProgressTryUnsigned(file) ==
    IF file.kind # "json" THEN ReadThrows
    ELSE LET n == ToNumber(file)
         IN ReadReturns(IF n.finite THEN n.n ELSE 0)

\* The try block: readFileSync throws on a missing file, JSON.parse on text
\* that is no JSON.
ReadProgressTry(file) ==
    IF file.kind = "missing" THEN ReadThrows
    ELSE IF file.kind = "garbage" THEN ReadThrows
    ELSE LET n == ToNumber(file)
         IN ReadReturns(IF n.finite /\ n.n >= 0 THEN n.n ELSE 0)

\* catch { return 0; }
ReadProgressCatch(out) == IF out.kind = "throw" THEN ReadReturns(0) ELSE out

ReadProgressCall(file) == ReadProgressCatch(ReadProgressTry(file))

ReadProgressIndex(file) == ReadProgressCall(file).value

---------------------------------------------------------------------------
(* SpecProgress: one progress.json, whatever it holds, and the calls of    *)
(* index.ts on it.                                                         *)

Texts == {<<>>, <<"2">>, <<"1", "0">>, <<"-", "1">>, <<"+", "3">>, <<"x">>, <<"2", "x">>}

\* What progress.json may hold when the program comes to it.
ProgressContents ==
    {NoFile, TornFile}
        \cup {ProgressJson(i) : i \in (0 - 1)..MaxStored}
        \cup {JsonOf(t, 0, <<>>) : t \in {"absent", "null", "overflow", "object"}}
        \cup {JsonOf("boolean", b, <<>>) : b \in 0..1}
        \cup {JsonOf("string", 0, t) : t \in Texts}

NoCall == [kind |-> "none"]

InitProgress ==
    /\ en = EnIdle
    /\ rq = RqIdle
    /\ wr = WrIdle
    /\ tk = TkIdle
    /\ win = WinIdle
    /\ SchedIdle
    /\ \E f \in ProgressContents :
          pf = [pc |-> "idle", file |-> f, before |-> f, out |-> NoCall]

\* ensureDataFiles(): progress.json is created when it does not exist.
PfEnsure ==
    /\ pf.pc # "off"
    /\ pf' = [pf EXCEPT !.pc = "ensured", !.before = pf.file,
                        !.file = EnsureDataFiles(pf.file), !.out = NoCall]
    /\ UNCHANGED <<genVars, reqVars, wrVars, tkVars, winVars, schedVars>>

\* readProgressIndex()
PfRead ==
    /\ pf.pc # "off"
    /\ pf' = [pf EXCEPT !.pc = "read", !.before = pf.file,
                        !.out = ReadProgressCall(pf.file)]
    /\ UNCHANGED <<genVars, reqVars, wrVars, tkVars, winVars, schedVars>>

\* await writeProgressIndex(i), to its end.
PfWrite(i) ==
    /\ pf.pc # "off"
    /\ pf' = [pf EXCEPT !.pc = "written", !.before = pf.file,
                        !.file = ProgressJson(i), !.out = NoCall]
    /\ UNCHANGED <<genVars, reqVars, wrVars, tkVars, winVars, schedVars>>

\* The process is killed inside writeProgressIndex: writeFile has truncated
\* the file and not written all of the new content.
PfCrashInWrite ==
    /\ pf.pc # "off"
    /\ pf' = [pf EXCEPT !.pc = "idle", !.before = pf.file,
                        !.file = TornFile, !.out = NoCall]
    /\ UNCHANGED <<genVars, reqVars, wrVars, tkVars, winVars, schedVars>>

\* Between two runs the file is deleted, edited or damaged.
PfDamage(f) ==
    /\ pf.pc # "off"
    /\ f # pf.file
    /\ pf' = [pf EXCEPT !.pc = "idle", !.before = pf.file, !.file = f,
                        !.out = NoCall]
    /\ UNCHANGED <<genVars, reqVars, wrVars, tkVars, winVars, schedVars>>

NextProgress ==
    \/ PfEnsure
    \/ PfRead
    \/ \E i \in 0..MaxStored : PfWrite(i)
    \/ PfCrashInWrite
    \/ \E f \in ProgressContents : PfDamage(f)

SpecProgress == InitProgress /\ [][NextProgress]_vars

---------------------------------------------------------------------------
(* SpecToken: login-token.ts. login() once, then the interval timer of     *)
(* getUsersAssignment calls refreshToken(); a call whose fetch is slow is  *)
(* still in flight when the next one starts.                               *)

Str(s) == [str |-> s]
\* !v, for the values a credential or a member of the answer can have.
Falsy(v) == v \in {Null, Undefined, Str("")}

AccessValues == {Undefined, Null, Str(""), Str("a1"), Str("a2")}
RefreshValues == {Undefined, Str(""), Str("r1"), Str("r2")}

\* What a fetch followed by response.json() gives: the fetch rejects, the
\* body is no JSON, the body is JSON null, or it is an object.
Answers ==
    {[kind |-> k, access |-> Undefined, refresh |-> Undefined] :
        k \in {"fetchRejects", "jsonThrows", "jsonNull"}}
        \cup {[kind |-> "object", access |-> a, refresh |-> r] :
                a \in AccessValues, r \in RefreshValues}

\* json?.access, json.refresh
AccessOf(json) == IF json.kind = "object" THEN json.access ELSE Undefined
RefreshOf(json) == IF json.kind = "object" THEN json.refresh ELSE Undefined

\* a || b
OrElse(a, b) == IF Falsy(a) THEN b ELSE a

Credentials(t, r) == [token |-> t, refreshTokenValue |-> r]

\* login(), from the answer on: the two module variables and how the promise
\* settles.
LoginSettle(cred, json) ==
    IF json.kind \in {"fetchRejects", "jsonThrows"} \/ Falsy(AccessOf(json))
    THEN [cred |-> cred, out |-> "rejected"]
    ELSE [cred |-> Credentials(AccessOf(json), OrElse(RefreshOf(json), Null)),
          out |-> "resolved"]

\* Faulty variant, for the mutation analysis of the properties: the answer is stored before it is tested.
RefreshSettleStoresFirst(cred, json) ==
    IF json.kind \in {"fetchRejects", "jsonThrows"}
    THEN [cred |-> cred, out |-> "rejected"]
    ELSE [cred |-> Credentials(AccessOf(json),
                               OrElse(RefreshOf(json), cred.refreshTokenValue)),
          out |-> IF Falsy(AccessOf(json)) THEN "rejected" ELSE "resolved"]

\* refreshToken(), from the answer on.
RefreshSettle(cred, json) ==
    IF json.kind \in {"fetchRejects", "jsonThrows"} \/ Falsy(AccessOf(json))
    THEN [cred |-> cred, out |-> "rejected"]
    ELSE [cred |-> Credentials(AccessOf(json),
                               OrElse(RefreshOf(json), cred.refreshTokenValue)),
          out |-> "resolved"]

\* .catch((e) => console.warn(...)) of the timer callback.
TimerCatch(out) == IF out = "rejected" THEN "warned" ELSE out

InitToken ==
    /\ en = EnIdle
    /\ rq = RqIdle
    /\ wr = WrIdle
    /\ pf = PfIdle
    /\ win = WinIdle
    /\ SchedIdle
    /\ tk = [pc |-> "login", cred |-> Credentials(Null, Null), inFlight |-> <<>>,
             ticks |-> 0, last |-> "none"]

\* await login(...): a rejection ends getUsersAssignment before the timer is
\* set.
TkLogin(json) ==
    /\ tk.pc = "login"
    /\ LET done == LoginSettle(tk.cred, json)
       IN tk' = [tk EXCEPT !.cred = done.cred,
                           !.pc = IF done.out = "resolved" THEN "running"
                                  ELSE "failed"]
    /\ UNCHANGED <<genVars, reqVars, wrVars, pfVars, winVars, schedVars>>

\* The timer fires: refreshToken() runs to its first await. Without a
\* refresh token it warns and returns; else the request leaves with the
\* refresh token of this moment.
TkTick ==
    /\ tk.pc = "running"
    /\ tk.ticks < MaxTicks
    /\ tk' = IF Falsy(tk.cred.refreshTokenValue)
             THEN [tk EXCEPT !.ticks = @ + 1, !.last = "noRefreshToken"]
             ELSE [tk EXCEPT !.ticks = @ + 1, !.last = "sent",
                      !.inFlight = Append(@, tk.cred.refreshTokenValue)]
    /\ UNCHANGED <<genVars, reqVars, wrVars, pfVars, winVars, schedVars>>

\* The answer to the k-th request in flight arrives and refreshToken()
\* runs to its end.
TkAnswer(k, json) ==
    /\ tk.pc \in {"running", "stopped"}
    /\ k \in 1..Len(tk.inFlight)
    /\ LET done == RefreshSettle(tk.cred, json)
       IN tk' = [tk EXCEPT !.cred = done.cred,
                           !.last = TimerCatch(done.out),
                           !.inFlight = SubSeq(@, 1, k - 1)
                                            \o SubSeq(@, k + 1, Len(@))]
    /\ UNCHANGED <<genVars, reqVars, wrVars, pfVars, winVars, schedVars>>

\* finally { clearInterval(refreshHandle); ... }
TkStop ==
    /\ tk.pc = "running"
    /\ tk' = [tk EXCEPT !.pc = "stopped"]
    /\ UNCHANGED <<genVars, reqVars, wrVars, pfVars, winVars, schedVars>>

NextToken ==
    \/ \E json \in Answers : TkLogin(json)
    \/ TkTick
    \/ \E k \in 1..MaxTicks, json \in Answers : TkAnswer(k, json)
    \/ TkStop

SpecToken == InitToken /\ [][NextToken]_vars

---------------------------------------------------------------------------
(* Spec: getUsersAssignment. The process is single-threaded: the tasks of  *)
(* a window settle only while the function is suspended in                 *)
(* Promise.allSettled (pc = "barrier").                                    *)

Stopped == {"off", "crashed", "aborted", "done"}

\* The records as the scheduler and the writers see them: the key and the
\* index are kept, and of the timestamp `at` the run in which the record was
\* made; the response and the payload, which neither of them reads, are left
\* out.
StoredValue(v, at) ==
    IF v.isNullValue THEN [isNullValue |-> TRUE, allIdsEntry |-> Undefined,
                           successEntry |-> Undefined]
    ELSE [isNullValue |-> FALSE,
          allIdsEntry |-> [type |-> "allIds", fullID |-> v.allIdsEntry.fullID,
                           index |-> v.allIdsEntry.index, at |-> at],
          successEntry |-> IF v.successEntry = Undefined THEN Undefined
                           ELSE [type |-> "success", fullID |-> v.successEntry.fullID,
                                 index |-> v.successEntry.index, at |-> at]]

\* Faulty variant, for the mutation analysis of the properties: the comparison of the skip is off by one.
SkipIndexInclusive(i, start) == i <= start

\* if (index < startIndex)
SkipIndex(i, start) == i < start

\* Faulty variant, for the mutation analysis of the properties: the progress is written first, the two appends follow.
NextStepCheckpointFirst(p) ==
    CASE p = "barrier" -> "checkpoint"
      [] p = "checkpoint" -> "audit"
      [] p = "audit" -> "success"
      [] p = "success" -> "reset"

\* Faulty variant, for the mutation analysis of the properties: the success batch is appended before the audit batch.
NextStepSuccessFirst(p) ==
    CASE p = "barrier" -> "success"
      [] p = "success" -> "audit"
      [] p = "audit" -> "checkpoint"
      [] p = "checkpoint" -> "reset"

\* The order of the awaited steps of a flush: allSettled, the append to
\* allIDs, the append to dataResults, the progress file, then the log line
\* and the reset of pending.
NextStep(p) ==
    CASE p = "barrier" -> "audit"
      [] p = "audit" -> "success"
      [] p = "success" -> "checkpoint"
      [] p = "checkpoint" -> "reset"

\* Faulty variant, for the mutation analysis of the properties: the window is taken as full one task late.
WindowFullLate(n) == n = BATCH_SIZE + 1

\* if (pending.length === BATCH_SIZE)
WindowFull(n) == n = BATCH_SIZE

\* Faulty variant, for the mutation analysis of the properties: the wait ends with the first task that settles.
AnySettled(tasks) == \E k \in 1..Len(tasks) : tasks[k].status # "pending"

\* await Promise.allSettled(pending): every promise of the window has settled.
AllSettled(tasks) == \A k \in 1..Len(tasks) : tasks[k].status # "pending"

RECURSIVE AllIdsOf(_)
\* The loop over results: the allIdsEntry of every fulfilled, non-null value.
AllIdsOf(tasks) ==
    IF tasks = <<>> THEN <<>>
    ELSE (IF Head(tasks).status = "fulfilled" /\ ~Head(tasks).value.isNullValue
          THEN <<Head(tasks).value.allIdsEntry>> ELSE <<>>) \o AllIdsOf(Tail(tasks))

RECURSIVE SuccessOf(_)
\* The loop over results: the successEntry of every value that has one.
SuccessOf(tasks) ==
    IF tasks = <<>> THEN <<>>
    ELSE (IF /\ Head(tasks).status = "fulfilled"
             /\ ~Head(tasks).value.isNullValue
             /\ Head(tasks).value.successEntry # Undefined
          THEN <<Head(tasks).value.successEntry>> ELSE <<>>) \o SuccessOf(Tail(tasks))

RECURSIVE RunChain(_, _, _, _)
\* requestForKeyWithBackoff(seq, index, attempt) followed through its
\* recursive calls, the calls answered by the responses of `run` in turn; the
\* result is "retry" when the run ends before the chain does.
RunChain(seq, idx, attempt, run) ==
    LET out == RequestForKeyWithBackoff(seq, idx, attempt, Head(run))
    IN IF out.kind = "retry" /\ Len(run) > 1
       THEN RunChain(seq, idx, attempt + 1, Tail(run))
       ELSE out

NetworkFailure == [ok |-> FALSE, json |-> JsonNull]

\* The answers the scheduler's runs end a chain with, one of each kind: a
\* network failure, an empty payload, the list, the terminal message.
FinalAnswers ==
    { NetworkFailure,
      [ok |-> TRUE, json |-> JsonNull],
      [ok |-> TRUE, json |-> [isNull |-> FALSE, data |-> "list",
                              message |-> [type |-> "absent", text |-> <<>>]]],
      [ok |-> TRUE, json |-> [isNull |-> FALSE, data |-> "absent",
                              message |-> [type |-> "string", text |-> Sentinel]]] }

\* What the service does to the calls of one task: up to maxAttempts - 1
\* network failures, then one of the final answers.
ResponseRuns ==
    {[j \in 1..n |-> NetworkFailure] \o <<r>> : n \in 0..(maxAttempts - 1), r \in FinalAnswers}

PendingIndices == {pending[k].index : k \in 1..Len(pending)}

Init ==
    /\ en = EnIdle
    /\ rq = RqIdle
    /\ wr = WrIdle
    /\ pf = PfIdle
    /\ tk = TkIdle
    /\ win = WinIdle
    /\ SchedIdle

\* getUsersAssignment up to the for loop: ensureDataFiles, readProgressIndex,
\* the browser and the login (taken to succeed), the two writers and their
\* recovery. Every file operation of it leaves the disk as a later start
\* would find or make it, so the stops inside it are not told apart.
Start ==
    /\ pc \in Stopped
    /\ pc # "off" => restarts < MaxRestarts
    /\ restarts' = IF pc = "off" THEN restarts ELSE restarts + 1
    /\ progressFile' = EnsureDataFiles(progressFile)
    /\ startIndex' = ReadProgressIndex(progressFile')
    /\ LET a == RecoverStateFromDisk(NewWriter(allIds, WriterOpts))
           b == RecoverStateFromDisk(NewWriter(success, WriterOpts))
       IN /\ allIds' = a.dir
          /\ allIdsState' = a.state
          /\ success' = b.dir
          /\ successState' = b.state
    /\ gen' = GenStart(allowedLetters, sequenceLength)
    /\ index' = 0
    /\ scheduled' = 0
    /\ pending' = <<>>
    /\ allIdsBatch' = <<>>
    /\ successBatch' = <<>>
    /\ final' = FALSE
    /\ submitted' = <<>>
    /\ pc' = "loop"
    /\ UNCHANGED <<lostWindow, successLeft, otherVars>>

\* An iteration of the for loop below the saved index: index++; continue.
LoopSkip ==
    /\ pc = "loop"
    /\ ~gen.done
    /\ SkipIndex(index, startIndex)
    /\ gen' = GenAdvance(allowedLetters, gen)
    /\ index' = index + 1
    /\ UNCHANGED <<pc, diskVars, allIdsState, successState, startIndex, scheduled, pending,
                   allIdsBatch, successBatch, final, envVars, otherVars>>

\* An iteration that schedules the request of seq; the window, once full, is
\* awaited.
LoopSubmit ==
    /\ pc = "loop"
    /\ ~gen.done
    /\ ~SkipIndex(index, startIndex)
    /\ LET seq == GenValue(allowedLetters, gen)
           p == [seq |-> seq, index |-> index, status |-> "pending",
                 value |-> StoredValue(Null, restarts)]
       IN /\ pending' = Append(pending, p)
          /\ submitted' = Append(submitted, [index |-> index, seq |-> seq])
    /\ gen' = GenAdvance(allowedLetters, gen)
    /\ scheduled' = scheduled + 1
    /\ index' = index + 1
    /\ final' = FALSE
    /\ pc' = IF WindowFull(Len(pending')) THEN "barrier" ELSE "loop"
    /\ UNCHANGED <<diskVars, allIdsState, successState, startIndex, allIdsBatch,
                   successBatch, lostWindow, restarts, successLeft, otherVars>>

\* Faulty variant, for the mutation analysis of the properties: the rest of the keyspace, short of a window, is not flushed.
LoopExitDropsRest ==
    /\ pc = "loop"
    /\ gen.done
    /\ pc' = "done"
    /\ UNCHANGED <<diskVars, allIdsState, successState, startIndex, gen, index, scheduled,
                   pending, allIdsBatch, successBatch, final, envVars, otherVars>>

\* The generator is done: the rest, if any, is flushed; then the finally block.
LoopExit ==
    /\ pc = "loop"
    /\ gen.done
    /\ final' = (Len(pending) > 0)
    /\ pc' = IF Len(pending) > 0 THEN "barrier" ELSE "done"
    /\ UNCHANGED <<diskVars, allIdsState, successState, startIndex, gen, index, scheduled,
                   pending, allIdsBatch, successBatch, envVars, otherVars>>

\* Task k settles: its chain of calls, answered as `run` tells, comes to its
\* return (the steps of one chain are those of SpecReq; the chains of a
\* window share nothing, so the scheduler sees each of them settle at once).
TaskSettle(k, run) ==
    /\ pc = "barrier"
    /\ pending[k].status = "pending"
    /\ LET t == pending[k]
           out == RunChain(t.seq, t.index, 1, run)
           given == IF out.kind = "return" /\ out.successEntry # Undefined THEN 1 ELSE 0
       IN /\ out.kind # "retry"
          /\ given <= successLeft
          /\ successLeft' = successLeft - given
          /\ pending' = [pending EXCEPT ![k].status = "fulfilled",
                                        ![k].value = StoredValue(TaskValue(out), restarts)]
    /\ UNCHANGED <<pc, diskVars, allIdsState, successState, startIndex, gen, index,
                   scheduled, allIdsBatch, successBatch, final, submitted, lostWindow,
                   restarts, otherVars>>

\* Promise.allSettled resolves; the two batches are built from the results.
Collect ==
    /\ pc = "barrier"
    /\ AllSettled(pending)
    /\ allIdsBatch' = AllIdsOf(pending)
    /\ successBatch' = SuccessOf(pending)
    /\ pc' = NextStep(pc)
    /\ UNCHANGED <<diskVars, allIdsState, successState, startIndex, gen, index, scheduled,
                   pending, final, envVars, otherVars>>

\* await allIdsWriter.appendBatch(allIdsBatch). The appendFile of a batch is
\* taken as one write: the lines of a batch reach the disk together.
AuditAppend ==
    /\ pc = "audit"
    /\ LET w == AppendBatch([dir |-> allIds, state |-> allIdsState, opts |-> WriterOpts],
                              allIdsBatch)
       IN allIds' = w.dir /\ allIdsState' = w.state
    /\ pc' = NextStep(pc)
    /\ UNCHANGED <<progressFile, success, successState, startIndex, gen, index, scheduled,
                   pending, allIdsBatch, successBatch, final, envVars, otherVars>>

\* await successWriter.appendBatch(successBatch)
SuccessAppend ==
    /\ pc = "success"
    /\ LET w == AppendBatch([dir |-> success, state |-> successState, opts |-> WriterOpts],
                              successBatch)
       IN success' = w.dir /\ successState' = w.state
    /\ pc' = NextStep(pc)
    /\ UNCHANGED <<progressFile, allIds, allIdsState, startIndex, gen, index, scheduled,
                   pending, allIdsBatch, successBatch, final, envVars, otherVars>>

\* await writeProgressIndex(index)
WriteProgress ==
    /\ pc = "checkpoint"
    /\ progressFile' = ProgressJson(index)
    /\ pc' = NextStep(pc)
    /\ UNCHANGED <<allIds, success, allIdsState, successState, startIndex, gen, index,
                   scheduled, pending, allIdsBatch, successBatch, final, envVars, otherVars>>

\* The log line; in the loop pending = [] and the loop goes on, after the loop
\* the function ends through its finally block.
WindowDone ==
    /\ pc = "reset"
    /\ pending' = IF final THEN pending ELSE <<>>
    /\ pc' = IF final THEN "done" ELSE "loop"
    /\ UNCHANGED <<diskVars, allIdsState, successState, startIndex, gen, index, scheduled,
                   allIdsBatch, successBatch, final, envVars, otherVars>>

\* What a stopped process leaves: the disk, and nothing of its memory.
Forget ==
    /\ allIdsState' = NewState
    /\ successState' = NewState
    /\ startIndex' = 0
    /\ gen' = GenStart(allowedLetters, sequenceLength)
    /\ index' = 0
    /\ scheduled' = 0
    /\ pending' = <<>>
    /\ allIdsBatch' = <<>>
    /\ successBatch' = <<>>
    /\ final' = FALSE
    /\ submitted' = <<>>
    /\ lostWindow' = PendingIndices

\* The process is killed between two steps.
Crash ==
    /\ pc \notin Stopped
    /\ restarts < MaxRestarts
    /\ pc' = "crashed"
    /\ Forget
    /\ UNCHANGED <<diskVars, restarts, successLeft, otherVars>>

\* The process is killed while fs.promises.writeFile overwrites progress.json:
\* the file is left truncated.
CrashInWrite ==
    /\ pc = "checkpoint"
    /\ restarts < MaxRestarts
    /\ progressFile' = TornFile
    /\ pc' = "crashed"
    /\ Forget
    /\ UNCHANGED <<allIds, success, restarts, successLeft, otherVars>>

\* Faulty variant, for the mutation analysis of the properties: the error of a write is caught and logged, and the function goes on.
FsErrorSwallowed ==
    /\ pc \in {"audit", "success", "checkpoint"}
    /\ restarts < MaxRestarts
    /\ pc' = NextStep(pc)
    /\ UNCHANGED <<diskVars, allIdsState, successState, startIndex, gen, index, scheduled,
                   pending, allIdsBatch, successBatch, final, envVars, otherVars>>

\* An append or the progress write rejects: nothing catches the error, it
\* leaves the try block through finally and getUsersAssignment rejects. The
\* call that failed has left the disk as it was, or, the flushMeta that ends
\* an append failing, the batch in its part and meta.json behind, or, the
\* progress write failing, progress.json cut short.
FsError ==
    /\ pc \in {"audit", "success", "checkpoint"}
    /\ restarts < MaxRestarts
    /\ \/ UNCHANGED diskVars
       \/ /\ pc = "audit"
          /\ allIdsBatch # <<>>
          /\ LET w == [dir |-> allIds, state |-> allIdsState, opts |-> WriterOpts]
                 r == IF NeedsRotate(w, SumBytes(allIdsBatch), Len(allIdsBatch))
                      THEN Rotate(w) ELSE w
             IN allIds' = AppendFile(r, allIdsBatch).dir
          /\ UNCHANGED <<progressFile, success>>
       \/ /\ pc = "success"
          /\ successBatch # <<>>
          /\ LET w == [dir |-> success, state |-> successState, opts |-> WriterOpts]
                 r == IF NeedsRotate(w, SumBytes(successBatch), Len(successBatch))
                      THEN Rotate(w) ELSE w
             IN success' = AppendFile(r, successBatch).dir
          /\ UNCHANGED <<progressFile, allIds>>
       \/ /\ pc = "checkpoint"
          /\ progressFile' = TornFile
          /\ UNCHANGED <<allIds, success>>
    /\ pc' = "aborted"
    /\ Forget
    /\ UNCHANGED <<restarts, successLeft, otherVars>>

Next ==
    \/ Start
    \/ LoopSkip
    \/ LoopSubmit
    \/ LoopExit
    \/ \E k \in 1..Len(pending) : \E run \in ResponseRuns : TaskSettle(k, run)
    \/ Collect
    \/ AuditAppend
    \/ SuccessAppend
    \/ WriteProgress
    \/ WindowDone
    \/ Crash
    \/ CrashInWrite
    \/ FsError

Spec == Init /\ [][Next]_vars

---------------------------------------------------------------------------
(* SpecWindow: one window of getUsersAssignment with the order in which    *)
(* its tasks settle: the chains of the tasks advance call by call, in any  *)
(* interleaving, while the function waits in Promise.allSettled.           *)

\* Faulty variant, for the mutation analysis of the properties: the results come in the order in which the promises settled.
ResultsAsSettled(tasks, order) == [k \in 1..Len(order) |-> tasks[order[k]]]

\* The array Promise.allSettled(pending) resolves to: the result of a
\* promise stands where the promise stands in pending, whenever it settled.
AllSettledResults(tasks, order) == [k \in 1..Len(tasks) |-> tasks[k]]

\* The first index of a window: a multiple of BATCH_SIZE within the keyspace.
WindowStarts == {i \in 0..(Len(AllKeys) - 1) : i % BATCH_SIZE = 0}

InitWindow ==
    /\ en = EnIdle
    /\ rq = RqIdle
    /\ wr = WrIdle
    /\ pf = PfIdle
    /\ tk = TkIdle
    /\ SchedIdle
    /\ \E i \in WindowStarts :
          win = [pc |-> "loop", index |-> i, pending |-> <<>>, attempt |-> <<>>,
                 order |-> <<>>, allIdsBatch |-> <<>>,
                 writer |-> RecoverStateFromDisk(NewWriter(EmptyDir, WriterOpts))]

\* An iteration of the for loop: the task of the next key is pushed; the
\* window is awaited when it is full or the keyspace is exhausted.
WinSubmit ==
    /\ win.pc = "loop"
    /\ win.index < Len(AllKeys)
    /\ LET p == [seq |-> AllKeys[win.index + 1], index |-> win.index,
                 status |-> "pending", value |-> StoredValue(Null, 0)]
           n == Len(win.pending) + 1
       IN win' = [win EXCEPT !.pending = Append(@, p),
                             !.attempt = Append(@, 1),
                             !.index = @ + 1,
                             !.pc = IF WindowFull(n) \/ win.index + 1 = Len(AllKeys)
                                    THEN "barrier" ELSE "loop"]
    /\ UNCHANGED <<genVars, reqVars, wrVars, pfVars, tkVars, schedVars>>

\* The call in progress of task k is answered: the chain goes to its next
\* attempt, or the task settles, after those that settled before it.
WinTaskStep(k, resp) ==
    /\ win.pc = "barrier"
    /\ k \in 1..Len(win.pending)
    /\ win.pending[k].status = "pending"
    /\ LET t == win.pending[k]
           out == RequestForKeyWithBackoff(t.seq, t.index, win.attempt[k], resp)
       IN win' = IF out.kind = "retry"
                 THEN [win EXCEPT !.attempt[k] = @ + 1]
                 ELSE [win EXCEPT !.pending[k].status = "fulfilled",
                                  !.pending[k].value = StoredValue(TaskValue(out), 0),
                                  !.order = Append(@, k)]
    /\ UNCHANGED <<genVars, reqVars, wrVars, pfVars, tkVars, schedVars>>

\* Promise.allSettled resolves; allIdsBatch is built from its results.
WinCollect ==
    /\ win.pc = "barrier"
    /\ AllSettled(win.pending)
    /\ win' = [win EXCEPT !.pc = "audit",
                  !.allIdsBatch = AllIdsOf(AllSettledResults(win.pending, win.order))]
    /\ UNCHANGED <<genVars, reqVars, wrVars, pfVars, tkVars, schedVars>>

\* await allIdsWriter.appendBatch(allIdsBatch)
WinAuditAppend ==
    /\ win.pc = "audit"
    /\ win' = [win EXCEPT !.pc = "flushed",
                          !.writer = AppendBatch(win.writer, win.allIdsBatch)]
    /\ UNCHANGED <<genVars, reqVars, wrVars, pfVars, tkVars, schedVars>>

NextWindow ==
    \/ WinSubmit
    \/ \E k \in 1..BATCH_SIZE, resp \in FinalAnswers : WinTaskStep(k, resp)
    \/ WinCollect
    \/ WinAuditAppend

SpecWindow == InitWindow /\ [][NextWindow]_vars

---------------------------------------------------------------------------
(* Properties of the generator.                                            *)

RECURSIVE DigitKey(_, _, _, _)
\* The letters of the base-A digits of i, most significant first, from digit k.
DigitKey(alphabet, depth, i, k) ==
    IF k > depth THEN ""
    ELSE alphabet[((i \div Pow(Len(alphabet), depth - k)) % Len(alphabet)) + 1]
             \o DigitKey(alphabet, depth, i, k + 1)

\* C5: the index-th key the generator yields is the base-A digit decomposition
\* of index, most significant digit first, mapped through the alphabet; the
\* keys yielded are all distinct and there are A^D of them when the generator
\* ends; alphabet M,N at depth 2 yields exactly MM, MN, NM, NN.
C5_KeyIsDigitDecomposition ==
    en.depth > 0 =>
        /\ en.index > 0 => en.seq = DigitKey(en.alphabet, en.depth, en.index - 1, 1)
        /\ Cardinality(en.keys) = en.index
        /\ en.index <= Pow(Len(en.alphabet), en.depth)
        /\ en.gen.done => en.index = Pow(Len(en.alphabet), en.depth)
        /\ (en.gen.done /\ en.alphabet = <<"M", "N">> /\ en.depth = 2)
               => en.keys = {"MM", "MN", "NM", "NN"}

C5_Witness ==
    /\ en.gen.done
    /\ en.alphabet = <<"N", "M", "O">>
    /\ en.depth = 3
    /\ en.seq = "OOO"
    /\ en.index = 27

---------------------------------------------------------------------------
(* Properties of the request chain.                                        *)

Answered == rq.st # "idle" /\ rq.calls > 0
LastJson == rq.last.json
\* The answer carries an array at data.list_standby.
LastHasList == rq.last.ok /\ ~LastJson.isNull /\ LastJson.data = "list"
\* The answer is a payload with neither the list nor a message field, or the
\* call failed at the network level.
LastTransient ==
    \/ ~rq.last.ok
    \/ LastJson.isNull
    \/ LastJson.data # "list" /\ LastJson.message.type = "absent"
AuditOnly(response) ==
    /\ ~rq.value.isNullValue
    /\ rq.value.allIdsEntry = [fullID |-> fixedPrefix \o rq.seq, index |-> rq.index,
                               response |-> response]
    /\ rq.value.successEntry = Undefined

\* C6: an answer with an array at data.list_standby, whatever message it also
\* carries, settles the task at that attempt with an audit record and a
\* success record; a settled task has a success record only after such an answer.
C6_SuccessHasPriority ==
    /\ (Answered /\ LastHasList) =>
          /\ rq.st = "settled"
          /\ rq.calls = rq.attempt
          /\ ~rq.value.isNullValue
          /\ rq.value.allIdsEntry = [fullID |-> fixedPrefix \o rq.seq, index |-> rq.index,
                                     response |-> LastJson]
          /\ rq.value.successEntry = [index |-> rq.index, fullID |-> fixedPrefix \o rq.seq,
                                      data |-> "list_standby"]
    /\ (rq.st = "settled" /\ ~rq.value.isNullValue /\ rq.value.successEntry # Undefined)
          => LastHasList

C6_Witness ==
    /\ rq.st = "settled"
    /\ LastHasList
    /\ LastJson.message = [type |-> "string", text |-> <<"x", "I", "n", "T", "y">>]
    /\ rq.value.successEntry # Undefined

\* C7 as stated: every answer without the list in which the message field is
\* present is final.
C7_AnyMessageIsFinal ==
    (Answered /\ rq.last.ok /\ ~LastHasList /\ ~LastJson.isNull
        /\ LastJson.message.type # "absent")
      => (rq.st = "settled" /\ AuditOnly(LastJson))

\* C7 amended: every answer without the list whose message field is a
\* non-empty string, the sentinel in any letter case or not, is final: the task
\* settles at that attempt with an audit record only, holding the raw answer,
\* with no further call and no delay after it.
C7_NonEmptyMessageIsFinal ==
    (Answered /\ rq.last.ok /\ ~LastHasList /\ ~LastJson.isNull
        /\ LastJson.message.type = "string" /\ LastJson.message.text # <<>>)
      => /\ rq.st = "settled"
         /\ AuditOnly(LastJson)
         /\ rq.calls = rq.attempt
         /\ Len(rq.delays) = rq.attempt - 1

C7_Witness ==
    /\ rq.st = "settled"
    /\ ~LastHasList
    /\ LastJson.message = [type |-> "string", text |-> <<"n", "o">>]
    /\ rq.attempt = 2

Schedule == <<2000, 4000, 8000, 16000>>

\* C8: the delays of one chain are 2, 4, 8, 16 seconds in this order; a
\* transient failure at attempts 1..4 is followed by the delay of its attempt
\* and a transient failure at attempt 5 settles the task with no further
\* delay; a chain makes at most 5 calls.
C8_BackoffSchedule ==
    rq.st # "idle" =>
        /\ rq.calls <= 5
        /\ Len(rq.delays) <= 4
        /\ \A k \in 1..Len(rq.delays) : rq.delays[k] = Schedule[k]
        /\ (Answered /\ LastTransient /\ rq.calls < 5)
              => (rq.st \in {"sleeping", "calling"} /\ Len(rq.delays) = rq.calls)
        /\ (Answered /\ LastTransient /\ rq.calls = 5)
              => (rq.st = "settled" /\ Len(rq.delays) = 4)
        /\ rq.st = "calling" => rq.attempt = rq.calls + 1
        /\ rq.st # "calling" => rq.attempt = rq.calls

C8_Witness ==
    /\ rq.st = "settled"
    /\ rq.calls = 5
    /\ rq.delays = <<2000, 4000, 8000, 16000>>
    /\ ~rq.last.ok

SynthesizedError == [error |-> "Fallo tras intentos", attempts |-> 5]

C10_AlwaysSettlesWithAudit ==
    /\ <>(rq.st = "settled")
    /\ [](rq.st = "settled" =>
            /\ ~rq.value.isNullValue
            /\ rq.value.allIdsEntry.fullID = fixedPrefix \o rq.seq
            /\ rq.value.allIdsEntry.index = rq.index)

C10_Witness ==
    /\ rq.st = "settled"
    /\ rq.calls = 5
    /\ LastJson.isNull
    /\ rq.last.ok
    /\ ~rq.value.isNullValue

---------------------------------------------------------------------------
(* Properties of the scheduler.                                            *)

AllLines(dir) == UNION {Range(dir.files[q]) : q \in DOMAIN dir.files}
AuditIndices == {l.index : l \in AllLines(allIds)}
Checkpoint == ReadProgressIndex(progressFile)
BatchOnDisk(dir, batch) == \A k \in 1..Len(batch) : batch[k] \in AllLines(dir)
\* The state in which a run enters its for loop.
RunStart == pc = "loop" /\ index = 0 /\ scheduled = 0
\* A window is open: tasks are pending or its flush is not finished.
WindowOpen == pc \in {"loop", "barrier", "audit", "success"} /\ Len(pending) > 0

\* C1: progress.json is written only in the last step of a window's flush,
\* when every task of the window has settled, the audit batch holds a record
\* of each of its indices and the audit batch and the success batch of this
\* window are both on disk; no line once on disk is ever removed; and while
\* a window is open, its audit or success batch not yet appended, the
\* checkpoint on disk has not moved past the window's first index.
C1_CheckpointAfterAppends ==
    /\ [][(progressFile' # progressFile /\ pc \notin Stopped) =>
            /\ pc = "checkpoint"
            /\ \A k \in 1..Len(pending) : pending[k].status = "fulfilled"
            /\ {allIdsBatch[k].index : k \in 1..Len(allIdsBatch)} = PendingIndices
            /\ BatchOnDisk(allIds, allIdsBatch)
            /\ BatchOnDisk(success, successBatch)
            /\ progressFile' \in {ProgressJson(index), TornFile}]_vars
    /\ [][/\ AllLines(allIds) \subseteq AllLines(allIds')
          /\ AllLines(success) \subseteq AllLines(success')]_vars
    /\ [](WindowOpen => Checkpoint <= pending[1].index)

C1_Witness ==
    /\ pc = "reset"
    /\ final
    /\ Len(successBatch) = 1
    /\ BatchOnDisk(success, successBatch)
    /\ progressFile = ProgressJson(Len(AllKeys))

C3_LastIndexAtMostHighest ==
    (progressFile.kind = "json" /\ progressFile.lastIndex > 0)
        => (AuditIndices # {} /\ progressFile.lastIndex <= Max(AuditIndices))

\* C3 amended: lastIndex never exceeds the highest index that has an audit
\* record on disk by more than one (it is the number of leading indices
\* flushed, the index the next run starts at): every index below lastIndex
\* has an audit record on disk.
C3_LastIndexAtMostNext ==
    progressFile.kind = "json" =>
        /\ progressFile.lastIndex >= 0
        /\ \A i \in 0..(progressFile.lastIndex - 1) : i \in AuditIndices
        /\ progressFile.lastIndex > 0 => progressFile.lastIndex - 1 <= Max(AuditIndices)

C3_Witness ==
    /\ progressFile = ProgressJson(BATCH_SIZE)
    /\ AuditIndices = 0..(BATCH_SIZE - 1)

\* C4: the dispatches of a run are those of the indices startIndex,
\* startIndex + 1, ... in this order, each with the key the enumeration has at
\* its index, none below startIndex; the tasks of the open window are the
\* last ones submitted; a run that ends has submitted every index up to the
\* last one of the keyspace, each once.
C4_DispatchFromCheckpoint ==
    pc \notin {"off", "crashed", "aborted"} =>
        /\ \A j \in 1..Len(submitted) :
              /\ submitted[j].index = startIndex + j - 1
              /\ submitted[j].index < Len(AllKeys)
              /\ submitted[j].seq = AllKeys[submitted[j].index + 1]
        /\ Len(submitted) = scheduled
        /\ pc # "done" =>
              \A k \in 1..Len(pending) :
                  LET s == submitted[Len(submitted) - Len(pending) + k]
                  IN pending[k].index = s.index /\ pending[k].seq = s.seq
        /\ pc = "done" => Len(submitted) = Len(AllKeys) - startIndex

\* A run that found lastIndex 2 has skipped 0 and 1 and ends having
\* dispatched index 2 alone.
C4_Witness ==
    /\ pc = "done"
    /\ startIndex = 2
    /\ submitted = <<[index |-> 2, seq |-> "O"]>>

---------------------------------------------------------------------------
(* Properties of the window: its size, its barrier, the order of the log,  *)
(* the errors of the file system.                                          *)

\* The dispatches of this run that the checkpoint on disk does not cover yet.
Unflushed == {j \in 1..Len(submitted) : submitted[j].index >= Checkpoint}
Flushing == pc \in {"barrier", "audit", "success", "checkpoint", "reset"}

\* C11: the dispatches submitted in a run and not yet covered by a flushed
\* window are never more than BATCH_SIZE; a dispatch is submitted only from
\* the loop, into a window that is not full, and never while a window is
\* awaited or written; a window awaited before the keyspace ends is full.
C11_WindowIsBounded ==
    /\ [](/\ Cardinality(Unflushed) <= BATCH_SIZE
          /\ Len(pending) <= BATCH_SIZE
          /\ (Flushing /\ ~final) => Len(pending) = BATCH_SIZE)
    /\ [][Len(submitted') > Len(submitted) =>
            /\ pc = "loop"
            /\ Len(pending) < BATCH_SIZE
            /\ Len(submitted') = Len(submitted) + 1
            /\ Len(pending') = Len(pending) + 1]_vars

\* A full window is awaited, one of its tasks settled and one not, while keys
\* remain to be dispatched.
C11_Witness ==
    /\ pc = "barrier"
    /\ ~final
    /\ ~gen.done
    /\ Len(pending) = BATCH_SIZE
    /\ Cardinality(Unflushed) = BATCH_SIZE
    /\ \E j, k \in 1..Len(pending) :
          pending[j].status = "pending" /\ pending[k].status = "fulfilled"

\* The lines of this run's open window that are on disk, in either log.
WindowLinesOnDisk ==
    {l \in AllLines(allIds) \cup AllLines(success) :
        l.at = restarts /\ l.index \in PendingIndices}

\* C12: whatever the order in which the tasks of a window settle, while one
\* of them has not settled nothing of the window is on disk and the flush
\* has not begun; the batches written are those of the settled window, one
\* audit record per task; the disk changes in a flush only once every task
\* has settled.
C12_SettleAllBarrier ==
    /\ [](/\ (pc \notin Stopped /\ ~AllSettled(pending)) =>
                (pc \in {"loop", "barrier"} /\ WindowLinesOnDisk = {})
          /\ pc \in {"audit", "success", "checkpoint", "reset"} =>
                /\ \A k \in 1..Len(pending) : pending[k].status = "fulfilled"
                /\ Len(allIdsBatch) = Len(pending)
                /\ \A k \in 1..Len(pending) : allIdsBatch[k].index = pending[k].index)
    /\ [][(pc \in {"loop", "barrier"} /\ pc' \notin Stopped) => UNCHANGED diskVars]_vars
    /\ [][(diskVars' # diskVars /\ pc \notin Stopped) => AllSettled(pending)]_vars

\* The last task of a window has settled, with a success record, before the
\* first one: the barrier holds and nothing of the window is on disk.
C12_Witness ==
    /\ pc = "barrier"
    /\ Len(pending) = BATCH_SIZE
    /\ pending[1].status = "pending"
    /\ pending[Len(pending)].status = "fulfilled"
    /\ pending[Len(pending)].value.successEntry # Undefined
    /\ WindowLinesOnDisk = {}

RECURSIVE LogFrom(_, _)
\* The lines of a log directory in the order of the log: part by part, and
\* in a part as the file holds them.
LogFrom(dir, q) ==
    IF q \notin DOMAIN dir.files THEN <<>> ELSE dir.files[q] \o LogFrom(dir, q + 1)
\* The audit lines of the current run, in the order of the log.
RunLines == SelectSeq(LogFrom(allIds, 1), LAMBDA l : l.at = restarts)
\* The window of the current run that dispatches index i.
WindowOf(i) == (i - startIndex) \div BATCH_SIZE

\* C13: in the audit log the lines of one run are ordered by window: a line
\* of a window comes before every line of a later window, and its index is
\* smaller; the lines one flush appends are those of one window.
C13_WindowOrderInLog ==
    pc \notin {"off", "crashed", "aborted"} =>
        LET lines == RunLines
            wins == [a \in 1..Len(lines) |-> WindowOf(lines[a].index)]
        IN /\ \A a, b \in 1..Len(lines) :
                 a < b =>
                     /\ wins[a] <= wins[b]
                     /\ wins[a] < wins[b] => lines[a].index < lines[b].index
           /\ \A a, b \in 1..Len(allIdsBatch) :
                 WindowOf(allIdsBatch[a].index) = WindowOf(allIdsBatch[b].index)
           /\ \A a \in 1..Len(lines) :
                 lines[a].index >= startIndex /\ lines[a].index < index

\* The run that began at index 0 has flushed its full window and its last,
\* partial one: the lines of both are in the log, window after window.
C13_Witness ==
    /\ pc = "done"
    /\ startIndex = 0
    /\ Len(RunLines) = Len(AllKeys)
    /\ Len(AllKeys) > BATCH_SIZE
    /\ WindowOf(RunLines[Len(RunLines)].index) > WindowOf(RunLines[1].index)

\* C14: getUsersAssignment goes past an append or the progress write only
\* when the write is done: a write that fails ends the run. The run that
\* ends so began no later window; until a new run starts nothing is
\* dispatched and nothing is written; and when it is an append that failed
\* the checkpoint is the one the window began with.
C14_WriteErrorAbortsRun ==
    /\ [](/\ pc \in {"success", "checkpoint", "reset"} => BatchOnDisk(allIds, allIdsBatch)
          /\ pc \in {"checkpoint", "reset"} => BatchOnDisk(success, successBatch)
          /\ pc = "reset" => progressFile = ProgressJson(index))
    /\ [][(pc' = "aborted" /\ pc # "aborted") =>
            /\ pc \in {"audit", "success", "checkpoint"}
            /\ pc \in {"audit", "success"} =>
                  (progressFile' = progressFile /\ Checkpoint <= pending[1].index)
            /\ submitted' = <<>>
            /\ lostWindow' = PendingIndices]_vars
    /\ [][pc = "aborted" =>
            \/ pc' = "aborted" /\ UNCHANGED <<diskVars, submitted, pending>>
            \/ pc' = "loop" /\ restarts' = restarts + 1 /\ submitted' = <<>>]_vars

\* The append to dataResults has failed after the append to allIDs: the run
\* is over, the audit lines of the window are on disk and the checkpoint is
\* still the one below the window.
C14_Witness ==
    /\ pc = "aborted"
    /\ lostWindow # {}
    /\ lostWindow \subseteq AuditIndices
    /\ \A i \in lostWindow : Checkpoint <= i
    /\ AllLines(success) = {}

---------------------------------------------------------------------------
(* Properties of the writer.                                               *)

\* What the disk says of a file: its newlines and its bytes.
NewlinesIn(file) == Len(SelectSeq(file, LAMBDA o : o.type # "fragment"))
BytesIn(file) == SumBytes(file)
\* What the disk says of the last part of a directory that has parts.
DiskTruth(files) ==
    LET k == Max(DOMAIN files)
    IN [part |-> k, lines |-> NewlinesIn(files[k]), bytes |-> BytesIn(files[k])]
MetaOf(state) ==
    [exists |-> TRUE, part |-> state.part, lines |-> state.lines, bytes |-> state.bytes]
\* A fresh writer on the directory of wr, recovered.
FreshRecovered == RecoverStateFromDisk(NewWriter(wr.dir, wr.opts))
\* meta.json as it can be found: absent, cut short, or holding any small state.
MetaValues ==
    {NoMeta, TornMeta}
        \cup {MetaOf([part |-> q, lines |-> l, bytes |-> b]) :
              q \in 1..2, l \in {0, MaxBatch}, b \in {0, 2 * MaxBatch}}

\* C15: recovery does not read meta.json: on the part files of any directory
\* reached, with meta.json absent, cut short, stale or holding any other
\* state, it yields the number of the highest part, the newlines of that
\* file and its size (part 1, empty, when there is no part), and that is the
\* state of a writer that has just recovered.
C15_RecoveryIgnoresMeta ==
    wr.pc # "off" =>
        /\ \A m \in MetaValues \cup {wr.dir.meta} :
              LET w == RecoverStateFromDisk(NewWriter([wr.dir EXCEPT !.meta = m], wr.opts))
              IN /\ w.state = (IF DOMAIN wr.dir.files = {} THEN NewState
                               ELSE DiskTruth(wr.dir.files))
                 /\ w.dir.meta = MetaOf(w.state)
        /\ wr.pc = "recoverFlush" => wr.state = DiskTruth(wr.dir.files)

\* A writer has recovered on a directory whose meta.json, which a crash
\* between appendFile and flushMeta left behind, says less than the part
\* holds.
C15_Witness ==
    /\ wr.pc = "recoverFlush"
    /\ wr.crashes > 0
    /\ wr.dir.meta.exists
    /\ wr.dir.meta # TornMeta
    /\ wr.dir.meta.lines < wr.state.lines
    /\ wr.state = DiskTruth(wr.dir.files)

RECURSIVE TotalLinesFrom(_, _)
\* The newlines of the parts q, q + 1, ... of a directory.
TotalLinesFrom(files, q) ==
    IF q \notin DOMAIN files THEN 0 ELSE NewlinesIn(files[q]) + TotalLinesFrom(files, q + 1)
RECURSIVE TotalBytesFrom(_, _)
\* The sum of the sizes of the parts q, q + 1, ... of a directory.
TotalBytesFrom(files, q) ==
    IF q \notin DOMAIN files THEN 0 ELSE BytesIn(files[q]) + TotalBytesFrom(files, q + 1)
TotalLines(files) == TotalLinesFrom(files, 1)
TotalBytes(files) == TotalBytesFrom(files, 1)

\* C16 as stated: after appendBatch calls that completed, a fresh recovery
\* reports the lines of all the parts and the sum of their sizes.
C16_RecoverCountsAllParts ==
    (wr.pc = "ready" /\ wr.crashes = 0 /\ wr.written > 0) =>
        /\ FreshRecovered.state.lines = TotalLines(wr.dir.files)
        /\ FreshRecovered.state.bytes = TotalBytes(wr.dir.files)

\* C16 amended: after appendBatch calls that completed, over any rotations,
\* a fresh recovery reports the last part, its lines and its size, which is
\* what the writer that wrote holds in memory; every record written is a
\* line on disk, and the lines and the bytes reported are those of the whole
\* directory when all of them are in the last part.
C16_RecoverCountsLastPart ==
    (wr.pc = "ready" /\ wr.crashes = 0) =>
        /\ FreshRecovered.state = DiskTruth(wr.dir.files)
        /\ FreshRecovered.state = wr.state
        /\ TotalLines(wr.dir.files) = wr.written
        /\ (\A q \in DOMAIN wr.dir.files : q < wr.state.part => wr.dir.files[q] = <<>>)
              => /\ FreshRecovered.state.lines = wr.written
                 /\ FreshRecovered.state.bytes = TotalBytes(wr.dir.files)

\* Two batches written, the second after a rotation: recovery reports the
\* lines of the second part only.
C16_Witness ==
    /\ wr.pc = "ready"
    /\ wr.crashes = 0
    /\ wr.state.part = 2
    /\ wr.dir.files[1] # <<>>
    /\ wr.dir.files[2] # <<>>
    /\ FreshRecovered.state.lines = Len(wr.dir.files[2])
    /\ wr.written = Len(wr.dir.files[1]) + Len(wr.dir.files[2])

\* The batch of the call in progress, or of the last call, would push the
\* part the call found over a cap.
WouldExceed ==
    \/ wr.from.bytes + BytesIn(wr.batch) > wr.opts.maxBytesPerPart
    \/ wr.from.lines + Len(wr.batch) > wr.opts.maxLinesPerPart
TargetPart == IF WouldExceed THEN wr.from.part + 1 ELSE wr.from.part

\* C17: an appendBatch call of a batch that is not empty writes to one part,
\* decided once: the part after the current one, which is new and takes all
\* the lines of the batch and nothing else, when the batch would push the
\* current part over the byte cap or the line cap; the current part, after
\* what it holds, otherwise. Every other part is as the call found it, and
\* until the append nothing of the batch is on disk.
C17_BatchGoesToOnePart ==
    (wr.pc \in {"rotateFlush", "append", "appendFlush", "ready"} /\ wr.batch # <<>>) =>
        /\ wr.state.part = TargetPart
        /\ DOMAIN wr.dir.files = DOMAIN wr.before \cup {TargetPart}
        /\ WouldExceed => TargetPart \notin DOMAIN wr.before
        /\ \A q \in DOMAIN wr.before : q # TargetPart => wr.dir.files[q] = wr.before[q]
        /\ wr.dir.files[TargetPart] =
              (IF WouldExceed THEN <<>> ELSE wr.before[TargetPart])
                 \o (IF wr.pc \in {"appendFlush", "ready"} THEN wr.batch ELSE <<>>)

\* A batch of several lines, which the line cap kept out of a part that
\* holds lines, is whole in the next part.
C17_Witness ==
    /\ wr.pc = "ready"
    /\ Len(wr.batch) > 1
    /\ wr.from.lines > 0
    /\ wr.from.lines + Len(wr.batch) > wr.opts.maxLinesPerPart
    /\ wr.from.bytes + BytesIn(wr.batch) <= wr.opts.maxBytesPerPart
    /\ wr.state.part = wr.from.part + 1
    /\ wr.dir.files[wr.state.part] = wr.batch
    /\ wr.dir.files[wr.from.part] = wr.before[wr.from.part]

WithinCaps(file) ==
    /\ NewlinesIn(file) <= wr.opts.maxLinesPerPart
    /\ BytesIn(file) <= wr.opts.maxBytesPerPart
\* What the file holds was written by one appendBatch call.
OneBatch(file) == \A a, b \in 1..Len(file) : file[a].at = file[b].at

\* C18 as stated: every part is within the caps.
C18_PartsWithinCaps ==
    wr.pc # "off" => \A q \in DOMAIN wr.dir.files : WithinCaps(wr.dir.files[q])

\* C18 amended: every part holds at most maxLinesPerPart lines and at most
\* maxBytesPerPart bytes, except a part that holds one batch alone: a batch
\* that is over a cap by itself is written whole into a part of its own.
C18_PartsWithinCapsOrOneBatch ==
    wr.pc # "off" =>
        \A q \in DOMAIN wr.dir.files :
            WithinCaps(wr.dir.files[q]) \/ OneBatch(wr.dir.files[q])

\* A part that holds lines within the caps, and after it a part with one
\* batch of more lines than the line cap.
C18_Witness ==
    /\ wr.pc = "ready"
    /\ DOMAIN wr.dir.files = {1, 2}
    /\ wr.dir.files[1] # <<>>
    /\ WithinCaps(wr.dir.files[1])
    /\ NewlinesIn(wr.dir.files[2]) > wr.opts.maxLinesPerPart
    /\ OneBatch(wr.dir.files[2])

\* The file g is the file f with something appended, or f itself.
Extends(f, g) == Len(f) <= Len(g) /\ SubSeq(g, 1, Len(f)) = f

\* C19: the parts of a directory are numbered 1..k without a gap; a writer
\* that has recovered is on part k; a part never disappears, what it holds
\* is never taken back, and only the part with the highest number is ever
\* written to.
C19_PartsContiguousAppendLast ==
    /\ [](wr.pc # "off" =>
            /\ \E k \in 0..(MaxAppends + 1) : DOMAIN wr.dir.files = 1..k
            /\ wr.pc # "closed" =>
                  (DOMAIN wr.dir.files # {} /\ wr.state.part = Max(DOMAIN wr.dir.files)))
    /\ [][wr.pc # "off" =>
            /\ DOMAIN wr.dir.files \subseteq DOMAIN wr'.dir.files
            /\ \A q \in DOMAIN wr.dir.files :
                  /\ Extends(wr.dir.files[q], wr'.dir.files[q])
                  /\ wr'.dir.files[q] # wr.dir.files[q] => q = Max(DOMAIN wr'.dir.files)]_vars

\* After a crash the writer has recovered on part 2 of two parts that hold
\* lines, and is ready to append to it.
C19_Witness ==
    /\ wr.pc = "ready"
    /\ wr.crashes > 0
    /\ DOMAIN wr.dir.files = {1, 2}
    /\ wr.state.part = 2
    /\ wr.dir.files[1] # <<>>
    /\ wr.dir.files[2] # <<>>

\* C20: when recoverStateFromDisk or appendBatch has returned, the state in
\* memory and meta.json both hold the number of the last part, its lines and
\* its size as the disk has them; a part that took a batch of 3 records and
\* then one of 4 holds 7 lines, and meta.json says lines = 7.
C20_StateAndMetaAreDiskTruth ==
    wr.pc = "ready" =>
        /\ wr.state = DiskTruth(wr.dir.files)
        /\ wr.dir.meta = MetaOf(DiskTruth(wr.dir.files))
        /\ \A t, u \in {"allIds", "success"} :
              wr.dir.files[wr.state.part] = BatchOf(t, 3, 1) \o BatchOf(u, 4, 2)
                 => (wr.state.lines = 7 /\ wr.dir.meta.lines = 7)

C20_Witness ==
    /\ wr.pc = "ready"
    /\ wr.crashes = 0
    /\ wr.state.part = 1
    /\ wr.dir.files[1] = BatchOf("allIds", 3, 1) \o BatchOf("success", 4, 2)
    /\ wr.state.lines = 7
    /\ wr.dir.meta = [exists |-> TRUE, part |-> 1, lines |-> 7, bytes |-> 18]

\* C21: recoverStateFromDisk called again on what a first call left, with
\* nothing written in between, yields the state the first call yielded and
\* changes no part file; so it is of every recovery the writer makes, the
\* one that found the directory empty and created part 1 included, and of a
\* recovery on any directory reached.
C21_RecoveryIsIdempotent ==
    /\ [][(wr.pc = "closed" /\ wr'.pc = "recoverFlush") =>
            LET again == RecoverStateFromDisk(WriterOf(wr'))
                fresh == RecoverStateFromDisk(NewWriter(wr'.dir, wr'.opts))
            IN /\ again.state = wr'.state
               /\ again.dir.files = wr'.dir.files
               /\ fresh.state = wr'.state
               /\ fresh.dir.files = wr'.dir.files]_vars
    /\ [](wr.pc # "off" =>
            LET once == RecoverStateFromDisk(NewWriter(wr.dir, wr.opts))
                twice == RecoverStateFromDisk(once)
            IN /\ twice.state = once.state
               /\ twice.dir = once.dir
               /\ DOMAIN wr.dir.files # {} => once.dir.files = wr.dir.files)

\* The process was killed in the flushMeta of the recovery that created part
\* 1 in the empty directory; the next process has recovered, on part 1, which
\* is still empty.
C21_Witness ==
    /\ wr.pc = "recoverFlush"
    /\ wr.crashes > 0
    /\ wr.appends = 0
    /\ DOMAIN wr.dir.files = {1}
    /\ wr.dir.files[1] = <<>>
    /\ wr.state = NewState

---------------------------------------------------------------------------
(* Properties of the last window, of the two logs together and of the      *)
(* checkpoint over the runs.                                               *)

FlushOrder == <<"barrier", "audit", "success", "checkpoint", "reset">>
PositionOf(p) == CHOOSE i \in 1..Len(FlushOrder) : FlushOrder[i] = p

\* C22: the window left when the keyspace ends, shorter than BATCH_SIZE, is
\* flushed by the steps of a full window in their order: the barrier, the
\* audit append, the success append, the progress write; a run that ends
\* leaves progress.json at the size of the keyspace and has written one audit
\* line, and only one, for each index from its start index to the last.
C22_FinalWindowFlushesAlike ==
    /\ [](/\ (final /\ Flushing) =>
                (gen.done /\ Len(pending) > 0 /\ Len(pending) < BATCH_SIZE)
          /\ pc = "done" =>
                /\ progressFile = ProgressJson(Len(AllKeys))
                /\ Len(RunLines) = Len(AllKeys) - startIndex
                /\ \A i \in startIndex..(Len(AllKeys) - 1) :
                      \E a \in 1..Len(RunLines) : RunLines[a].index = i)
    /\ [][(Flushing /\ pc' # pc /\ pc' \notin {"crashed", "aborted"}) =>
            /\ pc' = IF pc # "reset" THEN FlushOrder[PositionOf(pc) + 1]
                     ELSE IF final THEN "done" ELSE "loop"
            /\ pc = "barrier" => AllSettled(pending)
            /\ pc = "audit" => BatchOnDisk(allIds', allIdsBatch)
            /\ pc = "success" => BatchOnDisk(success', successBatch)
            /\ pc = "checkpoint" => progressFile' = ProgressJson(index)
            /\ final' = final]_vars

\* The first run has ended with the flush of a window shorter than
\* BATCH_SIZE: the checkpoint is the size of the keyspace.
C22_Witness ==
    /\ pc = "done"
    /\ final
    /\ restarts = 0
    /\ startIndex = 0
    /\ Len(pending) > 0
    /\ Len(pending) < BATCH_SIZE
    /\ progressFile = ProgressJson(Len(AllKeys))
    /\ Len(RunLines) = Len(AllKeys)

---------------------------------------------------------------------------
(* The checkpoint read.                                                    *)

\* The index a progress.json stands for: nothing for a file that is missing
\* or is no JSON; else what its lastIndex member converts to, by JSON type.
IndexOf(file) ==
    IF file.kind # "json" THEN 0
    ELSE CASE file.type = "number" ->
                IF file.lastIndex >= 0 THEN file.lastIndex ELSE 0
           [] file.type = "boolean" -> file.lastIndex
           [] file.type = "string" ->
                IF IsDecimal(file.text) THEN DecimalOf(file.text)
                ELSE IF Len(file.text) > 1 /\ file.text[1] = "+"
                        /\ IsDecimal(Tail(file.text))
                     THEN DecimalOf(Tail(file.text))
                     ELSE 0
           [] OTHER -> 0

\* A file whose lastIndex is a finite number that is not negative.
WellFormed(file) ==
    file.kind = "json" /\ file.type = "number" /\ file.lastIndex >= 0

\* C23, as stated: a checkpoint read returns 0 when the file is missing or
\* corrupt (no JSON, or a lastIndex that is absent, negative or not a finite
\* number) and the stored lastIndex otherwise; it never raises and never
\* modifies the file. Refuted by a lastIndex that is not a number but
\* converts to one: the string "2" is read as 2, true as 1.
C23_ReadReturnsStoredOrZero ==
    pf.pc = "read" =>
        /\ pf.out.kind = "return"
        /\ pf.file = pf.before
        /\ pf.out.value = IF WellFormed(pf.before) THEN pf.before.lastIndex ELSE 0

\* C23, amended: a checkpoint read returns 0 when the file is missing or is
\* no JSON, when lastIndex is absent or null, and when the conversion of
\* lastIndex to a number is negative or not finite; otherwise it returns
\* that conversion, which is the stored lastIndex when that is a number, the
\* value of a numeric string, 1 for true and 0 for false. It never raises
\* and never modifies the file.
C23_ReadReturnsConversionOrZero ==
    pf.pc = "read" =>
        /\ pf.out.kind = "return"
        /\ pf.file = pf.before
        /\ pf.out.value = IndexOf(pf.before)
        /\ pf.out.value >= 0
        /\ WellFormed(pf.before) => pf.out.value = pf.before.lastIndex
        /\ pf.before \in {NoFile, TornFile} => pf.out.value = 0

\* A file whose lastIndex is the string "2" has been read: 2 is returned.
C23_Witness ==
    /\ pf.pc = "read"
    /\ pf.file = JsonOf("string", 0, <<"2">>)
    /\ pf.out = ReadReturns(2)

---------------------------------------------------------------------------
(* The credential refresh.                                                 *)

\* A step in which a call of refreshToken ends.
RefreshEnds ==
    \/ tk.pc \in {"running", "stopped"} /\ Len(tk'.inFlight) < Len(tk.inFlight)
    \/ tk.pc = "running" /\ tk'.ticks > tk.ticks /\ tk'.inFlight = tk.inFlight

\* The call that ends has refreshed nothing.
RefreshFailed == tk'.last \in {"warned", "rejected", "noRefreshToken"}

\* C24: a credential refresh that fails (the fetch rejects, the answer has
\* no access token or is no JSON, or there is no refresh token to send)
\* leaves token and refreshTokenValue as they were; the rejection is caught
\* in the timer callback, and the run goes on with the timer still set.
C24_FailedRefreshKeepsCredentials ==
    /\ [][(RefreshEnds /\ RefreshFailed) =>
            /\ tk'.cred = tk.cred
            /\ tk'.last # "rejected"
            /\ tk'.pc = tk.pc]_vars
    /\ [](tk.pc # "off" => tk.last # "rejected")
    /\ [][(RefreshEnds /\ tk'.cred # tk.cred) =>
            /\ tk'.last = "resolved"
            /\ ~Falsy(tk'.cred.token)
            /\ ~Falsy(tk'.cred.refreshTokenValue)]_vars

\* A refresh has failed after an earlier one had succeeded: the credentials
\* are those of the refresh that succeeded, and the timer is still set.
C24_Witness ==
    /\ tk.pc = "running"
    /\ tk.last = "warned"
    /\ tk.ticks = 2
    /\ tk.inFlight = <<>>
    /\ tk.cred = Credentials(Str("a2"), Str("r2"))

---------------------------------------------------------------------------
(* The order of the lines of a window.                                     *)

\* The audit lines of the window, in the order of the log.
WindowLines == LogFrom(win.writer.dir, 1)
\* The place of the task of index i among the tasks that have settled.
SettledAt(i) ==
    CHOOSE a \in 1..Len(win.order) : win.pending[win.order[a]].index = i
\* The tasks of the window did not settle in the order of their submission.
SettledOutOfOrder ==
    \E a, b \in 1..Len(win.order) : a < b /\ win.order[a] > win.order[b]

\* C25, as stated: the audit lines of a window are in the order in which
\* its tasks completed. Refuted by a window whose second task settles first:
\* its line is still the second.
C25_LinesInCompletionOrder ==
    win.pc = "flushed" =>
        \A a, b \in 1..Len(WindowLines) :
            a < b => SettledAt(WindowLines[a].index) < SettledAt(WindowLines[b].index)

\* C25, amended: whatever the order in which the tasks of a window
\* complete, its audit lines are in the order of submission, by ascending
\* index, one line for each task whose value is not null.
C25_LinesInSubmissionOrder ==
    /\ win.pc \in {"audit", "flushed"} =>
          /\ \A a, b \in 1..Len(win.allIdsBatch) :
                a < b => win.allIdsBatch[a].index < win.allIdsBatch[b].index
          /\ {l.index : l \in Range(win.allIdsBatch)}
                = {win.pending[k].index : k \in
                      {j \in 1..Len(win.pending) : ~win.pending[j].value.isNullValue}}
          /\ Len(win.order) = Len(win.pending)
    /\ win.pc = "flushed" => WindowLines = win.allIdsBatch

\* A full window whose tasks settled in another order than they were
\* submitted in has been flushed with a line for each of them.
C25_Witness ==
    /\ win.pc = "flushed"
    /\ SettledOutOfOrder
    /\ Len(WindowLines) = BATCH_SIZE
    /\ \A a \in 1..Len(WindowLines) : WindowLines[a].index = win.pending[a].index

---------------------------------------------------------------------------
(* The two logs and the checkpoint across crashes.                         *)

SuccessLines == AllLines(success)
\* The audit line of a success line: same index, same key, same run.
AuditLineOf(l) == [type |-> "allIds", fullID |-> l.fullID, index |-> l.index, at |-> l.at]

C27_CheckpointNeverDecreases ==
    [][/\ Checkpoint' >= Checkpoint
       /\ (pc \in Stopped /\ pc' = "loop") => startIndex' = Checkpoint]_vars

=============================================================================
